---------------------------- MODULE Spec2Model ----------------------------
(***************************************************************************)
(* Model of the process table refresh logic of sysinfo:                    *)
(*   - the FreeBSD backend (src/freebsd/system.rs, src/freebsd/process.rs) *)
(*   - the Linux per-process helpers (src/linux/process.rs)                *)
(*                                                                         *)
(* Specifications:                                                         *)
(*   Spec           FreeBSD System: refresh_processes / refresh_process,   *)
(*                  each handler one atomic step; the kernel records vary  *)
(*                  in the P_SYSTEM flag.                                  *)
(*   SpecCpu        the same handlers, the kernel records varying in       *)
(*                  ki_pctcpu.                                             *)
(*   SpecPass       the full refresh pass step by step, with the parallel  *)
(*                  workers of the fetch phase interleaved (FreeBSD        *)
(*                  refresh_procs and Linux refresh_procs with pid == 0).  *)
(*   SpecLinuxCpu   one Linux Process entity under set_time and            *)
(*                  compute_cpu_usage.                                     *)
(*   SpecLinuxDisk  one Linux Process entity under                         *)
(*                  update_process_disk_activity and disk_usage.           *)
(*   SpecDisk       the FreeBSD handlers, the kernel records varying in    *)
(*                  ru_inblock / ru_oublock.                               *)
(*   SpecRepeat     the FreeBSD handlers on the listings of pid 1, alone   *)
(*                  or with pid 2.                                         *)
(*   SpecStat       the Linux stat record: parse_stat_file and the fields  *)
(*                  _get_process_data reads of it.                         *)
(*   SpecFetch      Linux refresh_procs as one call, the stat files of     *)
(*                  the folders readable, unreadable or unparsable.        *)
(*   SpecAgg        the FreeBSD System aggregator: construction,           *)
(*                  refresh_memory and refresh_cpu on a moving kernel.     *)
(*   SpecIdent      both backends, the kernel's view of a held pid         *)
(*                  changing in the attributes read at creation.           *)
(*   SpecSession    the FreeBSD System from construction to teardown and   *)
(*                  the kvm session its handlers use.                      *)
(*   SpecEntity     one Linux Process entity over the passes: observed or  *)
(*                  absent, then cleaned up.                               *)
(*   SpecMemory     one Linux Process entity under update_time_and_memory. *)
(*   SpecTasks      Linux refresh_procs on pid 1 with its threads coming,  *)
(*                  failing and going.                                     *)
(*   SpecFirst      both backends, pid 1 created from a first sample with  *)
(*                  disk counters.                                         *)
(*   SpecLookup     the FreeBSD refreshes and System::process(pid).        *)
(*   SpecName       the FreeBSD full refresh, the records varying in       *)
(*                  their command line and ki_comm.                        *)
(*   SpecFill       fill_processor over consecutive samples of the tick    *)
(*                  counters, decreasing ones included.                    *)
(***************************************************************************)
EXTENDS Integers, Sequences, FiniteSets, TLC

VARIABLES
    process_list,   \* FreeBSD System.process_list : HashMap<Pid, Process>
    system_info,    \* FreeBSD System.system_info (fscale, page_size_k, nb_cpus)
    last_call,      \* the last call made on the System, its input and its result
    lproc,          \* Linux: one Process entity
    lhist,          \* Linux: the calls made on lproc since Process::new
    ldisk,          \* Linux: what the last disk_usage() call on lproc gave
    pass,           \* the full refresh pass in flight, step by step
    lroot,          \* Linux: the root Process (pid 0) whose tasks is the table
    remaining_files, \* Linux: REMAINING_FILES
    stat_rec,       \* Linux: the content of a stat file as it was read
    stat_out,       \* Linux: what the last call made on stat_rec gave
    lcall,          \* Linux: the last refresh_procs call on lroot as a whole
    kern,           \* FreeBSD: the kernel the System is built on and samples
    sys,            \* FreeBSD: the System (memory, swap and processors)
    sys_call,       \* FreeBSD: the last call on sys, and the groups refreshed
                    \* since the kernel last changed
    session,        \* FreeBSD: the kvm sessions opened so far, and the handle
                    \* System.system_info.kd holds
    lpass,          \* Linux: where the refresh pass of the entity lproc is
    lmem,           \* Linux: the readings of the last update_time_and_memory
    fill            \* FreeBSD: the samples and the outcome of the last
                    \* fill_processor

fbsd_vars == <<process_list, system_info, last_call>>
linux_vars == <<lproc, lhist, ldisk>>
pass_vars == <<pass, lroot, remaining_files>>
stat_vars == <<stat_rec, stat_out>>
\* The variables that the calls on the process tables and on one entity
\* leave alone.
agg_vars == <<kern, sys, sys_call>>
more_vars == <<stat_vars, lcall, agg_vars, session, lpass, lmem, fill>>
vars == <<process_list, system_info, last_call, lproc, lhist, ldisk,
          pass, lroot, remaining_files, stat_rec, stat_out, lcall,
          kern, sys, sys_call, session, lpass, lmem, fill>>

(***************************************************************************)
(* Bounds of the model.                                                    *)
(***************************************************************************)
MaxPid == 2
\* Linux: utime / stime samples are drawn from 0..MaxTick.
MaxTick == 2
\* Linux: read_bytes / write_bytes samples are drawn from 0..MaxBytes.
MaxBytes == 2
\* u64 arithmetic is modelled at this width (TLC integers are 32 bits wide).
WordBits == 16
\* Linux: the value REMAINING_FILES starts with.
InitialFiles == 1
\* Linux: the command names of the stat records have at most this length.
MaxName == 2

Pids == 1..MaxPid

\* Values of the cumulative I/O counters that are sampled.
Bytes == 0..MaxBytes

\* Option<T>: None is the empty set, Some(x) the singleton.
None == {}
Some(x) == {x}

Max(a, b) == IF a >= b THEN a ELSE b
Min(a, b) == IF a <= b THEN a ELSE b

\* u64::saturating_sub
saturating_sub(a, b) == IF a >= b THEN a - b ELSE 0

(***************************************************************************)
(* FreeBSD: kernel records (libc::kinfo_proc) and the values sampled.      *)
(***************************************************************************)
\* Default of kern.fscale when the sysctl is unavailable.
DefaultFscale == 2048
\* The sampled kernel: vm.stats.vm.v_page_size (bytes), kern.smp.cpus and
\* kern.fscale.
Kernel == [v_page_size |-> 4096, smp_cpus |-> 2, fscale |-> DefaultFscale]

\* ki_pctcpu values sampled: idle, half a core, and more than every core
\* together (the 100 * ki_pctcpu / fscale quotient is an integer for each).
PctCpus == {0, DefaultFscale \div 2, 3 * DefaultFscale}

\* ki_flag is a bit set; only P_SYSTEM is read by the code.
KiFlags == {{}, {"P_SYSTEM"}}

\* libc::S* process states.
SIDL == 1
SRUN == 2
SSLEEP == 3
SSTOP == 4
SZOMB == 5
SWAIT == 6
SLOCK == 7

\* A path is the sequence of its components; the empty path is <<>>.
EmptyPath == <<>>

\* The kernel's record of process pid before any sampled field is varied.
BaseKProc(pid) ==
    [ ki_pid     |-> pid,
      ki_flag    |-> {},
      ki_pctcpu  |-> DefaultFscale \div 2,
      ki_ppid    |-> IF pid = 1 THEN 0 ELSE 1,
      ki_stat    |-> SSLEEP,
      ki_size    |-> 3000 * pid,
      ki_rssize  |-> pid,
      ki_runtime |-> 15000,
      ki_ruid    |-> 0,
      ki_rgid    |-> 0,
      ki_start   |-> 10,
      ru_inblock |-> 0,
      ru_oublock |-> 0,
      ki_comm    |-> "sh",
      argv       |-> << <<"/", "bin", "sh">> >>,
      envv       |-> <<"HOME=/">>,
      pathname   |-> <<"/", "bin", "sh">>,
      cwd        |-> <<"/", "root">> ]

\* The kernel's record of pid once the process changed owner, program and
\* working directory, or once the pid was given to another process.
ChangedKProc(pid) ==
    [ BaseKProc(pid) EXCEPT
        !.ki_ruid = 1, !.ki_rgid = 1, !.ki_start = 11, !.ki_comm = "ls",
        !.argv = << <<"/", "bin", "ls">> >>, !.envv = <<"HOME=/root">>,
        !.pathname = <<"/", "bin", "ls">>, !.cwd = <<"/">> ]

\* Records of pid that differ in the attributes read at creation only.
IdentKProcs(pid) == { BaseKProc(pid), ChangedKProc(pid) }

\* Records of pid that differ in the P_SYSTEM flag.
FlagKProcs(pid) == { [BaseKProc(pid) EXCEPT !.ki_flag = fl] : fl \in KiFlags }

\* Records of pid that differ in ki_pctcpu.
CpuKProcs(pid) == { [BaseKProc(pid) EXCEPT !.ki_pctcpu = pc] : pc \in PctCpus }

\* What kvm_getprocs(KERN_PROC_PROC) can return: one record per live
\* process, so a function from the set of live pids to their records, the
\* record of each pid drawn from KP[pid].   The empty function is a listing
\* with count = 0 (an empty answer, or kvm_getprocs failing).
ListingsOf(KP) ==
    UNION { { l \in [S -> UNION { KP[p] : p \in S }] :
                \A p \in S : l[p] \in KP[p] } : S \in SUBSET Pids }

\* The listings of the kernel with pid 1 alone, or no process.
IdentListings == {<< >>} \cup { [p \in {1} |-> kp] : kp \in IdentKProcs(1) }

\* What kvm_getargv can give: no argument (a kernel thread, a zombie, or the
\* call failing), a program path, the root alone, or an empty first
\* argument.
ArgvSamples ==
    { << >>, << <<"/", "bin", "sh">> >>, << <<"/">> >>, << << >> >> }

\* Records of pid that differ in their command line and in ki_comm.
NameKProcs(pid) ==
    { [ BaseKProc(pid) EXCEPT !.argv = a, !.ki_comm = c ] :
        a \in ArgvSamples, c \in {"", "init"} }

\* The listings of the kernel with no process, with pid 1 under any of its
\* command lines, alone or next to pid 2, or with pid 2 alone.
NameListings ==
    {<< >>}
    \cup { [p \in {1} |-> kp] : kp \in NameKProcs(1) }
    \cup { [p \in {1, 2} |-> IF p = 1 THEN kp ELSE BaseKProc(2)] :
             kp \in NameKProcs(1) }
    \cup { [p \in {2} |-> BaseKProc(2)] }

\* The listings of the kernel with no process, with pid 1, its record
\* differing in ki_pctcpu, and with pid 2 next to it.
RepeatListings ==
    {<< >>}
    \cup { [p \in {1} |-> kp] : kp \in CpuKProcs(1) }
    \cup { [p \in {1, 2} |-> IF p = 1 THEN kp ELSE BaseKProc(2)] :
             kp \in CpuKProcs(1) }

Listings == ListingsOf([p \in Pids |-> FlagKProcs(p)])

CpuListings == ListingsOf([p \in Pids |-> CpuKProcs(p)])

\* count returned by kvm_getprocs
Count(listing) == Cardinality(DOMAIN listing)

\* Records of pid 1 that differ in the block I/O counters of ki_rusage: the
\* higher ru_inblock, the lower ru_oublock, so that from one record to
\* another one counter grows while the other one decreases.
DiskKProcs ==
    { [BaseKProc(1) EXCEPT !.ru_inblock = r, !.ru_oublock = MaxBytes - r] :
        r \in Bytes }

\* Listings for the disk counters: nothing, pid 1 with some counters, or
\* pid 2 alone (pid 1 has vanished).
DiskListings ==
    { << >> }
    \cup { [p \in {1} |-> kp] : kp \in DiskKProcs }
    \cup { [p \in {2} |-> BaseKProc(2)] }

(***************************************************************************)
(* FreeBSD: Process (src/freebsd/process.rs).                              *)
(***************************************************************************)
\* impl From<libc::c_char> for ProcessStatus
ProcessStatusFrom(status) ==
    CASE status = SIDL   -> "Idle"
      [] status = SRUN   -> "Run"
      [] status = SSLEEP -> "Sleep"
      [] status = SSTOP  -> "Stop"
      [] status = SZOMB  -> "Zombie"
      [] status = SWAIT  -> "Dead"
      [] status = SLOCK  -> "LockBlocked"
      [] OTHER           -> "Unknown"

\* The filter without the exception made for pid 1.
FilteredAlsoInit(kproc) == "P_SYSTEM" \in kproc.ki_flag

\* get_process_data: "We filter out the kernel threads."
Filtered(kproc) == kproc.ki_pid # 1 /\ "P_SYSTEM" \in kproc.ki_flag

\* get_process_data: "the values needed for both new and existing process"
Sampled(kproc, si) ==
    [ cpu_usage      |-> (100 * kproc.ki_pctcpu) \div si.fscale,
      parent         |-> IF kproc.ki_ppid # 0 THEN Some(kproc.ki_ppid) ELSE None,
      status         |-> ProcessStatusFrom(kproc.ki_stat),
      virtual_memory |-> kproc.ki_size \div 1000,
      memory         |-> kproc.ki_rssize * si.page_size_k,
      run_time       |-> (kproc.ki_runtime + 5000) \div 10000 ]

\* UpdateEntry without the rotation of the previous disk counters.
UpdateEntryKeepOld(proc_, kproc, si) ==
    LET s == Sampled(kproc, si) IN
    [ proc_ EXCEPT
        !.cpu_usage         = s.cpu_usage,
        !.parent            = s.parent,
        !.status            = s.status,
        !.virtual_memory    = s.virtual_memory,
        !.memory            = s.memory,
        !.run_time          = s.run_time,
        !.updated           = TRUE,
        !.read_bytes        = kproc.ru_inblock,
        !.written_bytes     = kproc.ru_oublock ]

\* UpdateEntry taking the owner and the start time from the record again.
UpdateEntryNewOwner(proc_, kproc, si) ==
    LET s == Sampled(kproc, si) IN
    [ proc_ EXCEPT
        !.cpu_usage         = s.cpu_usage,
        !.parent            = s.parent,
        !.status            = s.status,
        !.virtual_memory    = s.virtual_memory,
        !.memory            = s.memory,
        !.run_time          = s.run_time,
        !.updated           = TRUE,
        !.uid               = kproc.ki_ruid,
        !.start_time        = kproc.ki_start,
        !.old_read_bytes    = proc_.read_bytes,
        !.read_bytes        = kproc.ru_inblock,
        !.old_written_bytes = proc_.written_bytes,
        !.written_bytes     = kproc.ru_oublock ]

\* get_process_data, the branch taken when the pid is already in the table.
UpdateEntry(proc_, kproc, si) ==
    LET s == Sampled(kproc, si) IN
    [ proc_ EXCEPT
        !.cpu_usage         = s.cpu_usage,
        !.parent            = s.parent,
        !.status            = s.status,
        !.virtual_memory    = s.virtual_memory,
        !.memory            = s.memory,
        !.run_time          = s.run_time,
        !.updated           = TRUE,
        !.old_read_bytes    = proc_.read_bytes,
        !.read_bytes        = kproc.ru_inblock,
        !.old_written_bytes = proc_.written_bytes,
        !.written_bytes     = kproc.ru_oublock ]

\* get_process_data, the branch taken for a pid not yet in the table.
NewProcess(kproc, si) ==
    LET s == Sampled(kproc, si) IN
    [ pid               |-> kproc.ki_pid,
      parent            |-> s.parent,
      uid               |-> kproc.ki_ruid,
      gid               |-> kproc.ki_rgid,
      start_time        |-> kproc.ki_start,
      run_time          |-> s.run_time,
      cpu_usage         |-> s.cpu_usage,
      virtual_memory    |-> s.virtual_memory,
      memory            |-> s.memory,
      cwd               |-> kproc.cwd,
      exe               |-> kproc.pathname,
      name              |-> "",
      cmd               |-> <<>>,
      root              |-> EmptyPath,
      environ           |-> <<>>,
      status            |-> s.status,
      read_bytes        |-> kproc.ru_inblock,
      old_read_bytes    |-> 0,
      written_bytes     |-> kproc.ru_oublock,
      old_written_bytes |-> 0,
      updated           |-> TRUE ]

\* get_process_data looking up the entry of the parent when there is one.
EntryKeyOfParent(kproc) ==
    IF kproc.ki_ppid # 0 THEN kproc.ki_ppid ELSE kproc.ki_pid

\* get_process_data: the key of the entry looked up, get_mut(&kproc.ki_pid)
EntryKey(kproc) == kproc.ki_pid

\* get_process_data(kproc, wrap, page_size, fscale): the table after the call
\* and the Option<Process> it returns.
get_process_data(kproc, table, si) ==
    IF Filtered(kproc)
    THEN [table |-> table, ret |-> None]
    ELSE IF EntryKey(kproc) \in DOMAIN table
    THEN [table |-> [table EXCEPT ![EntryKey(kproc)] =
                        UpdateEntry(table[EntryKey(kproc)], kproc, si)],
          ret   |-> None]
    ELSE [table |-> table, ret |-> Some(NewProcess(kproc, si))]

\* Process::disk_usage
freebsd_disk_usage(proc_) ==
    [ written_bytes       |-> saturating_sub(proc_.written_bytes, proc_.old_written_bytes),
      total_written_bytes |-> proc_.written_bytes,
      read_bytes          |-> saturating_sub(proc_.read_bytes, proc_.old_read_bytes),
      total_read_bytes    |-> proc_.read_bytes ]

(***************************************************************************)
(* FreeBSD: System (src/freebsd/system.rs).                                *)
(***************************************************************************)
\* std::path::Path::file_name: the last component, unless the path is empty,
\* is the root or ends in "..".
file_name(path) ==
    IF path = <<>> \/ path[Len(path)] \in {"/", ".."}
    THEN None
    ELSE Some(path[Len(path)])

\* std::path::Path::parent: the path without its last component; None for
\* the empty path and for the root.
parent(path) ==
    IF path = <<>> \/ path = <<"/">>
    THEN None
    ELSE Some(SubSeq(path, 1, Len(path) - 1))

\* refresh_procs, first step: every held entity is marked updated = false.
MarkAll(table) == [p \in DOMAIN table |-> [table[p] EXCEPT !.updated = FALSE]]

\* refresh_procs, the filter_map over the kernel records: get_process_data
\* for each record in turn; the new entities are collected with their
\* record.
RECURSIVE FetchAll(_, _, _, _, _)
FetchAll(todo, listing, table, staged, si) ==
    IF todo = {}
    THEN [table |-> table, staged |-> staged]
    ELSE LET pid == CHOOSE x \in todo : TRUE
             r   == get_process_data(listing[pid], table, si)
         IN FetchAll(todo \ {pid}, listing, r.table,
                     staged \cup { <<listing[pid], q>> : q \in r.ret }, si)

\* Retain with the eviction left out.
RetainNothingEvicted(table) == table

\* refresh_procs: process_list.retain(|_, v| v.updated)
Retain(table) ==
    LET keep == { p \in DOMAIN table : table[p].updated } IN
    [p \in keep |-> table[p]]

\* refresh_procs, body of the final loop before the insert: cmd, name, root
\* and environ of a new entity are read in the main thread.
FillNew(kproc, proc_) ==
    LET cmd  == kproc.argv
        p    == IF cmd # <<>> THEN cmd[1] ELSE EmptyPath
        name == IF cmd = <<>> THEN proc_.name
                ELSE IF file_name(p) # None
                     THEN CHOOSE n \in file_name(p) : TRUE
                     ELSE kproc.ki_comm
        root == IF cmd # <<>> /\ parent(p) # None
                THEN CHOOSE r \in parent(p) : TRUE
                ELSE proc_.root
    IN [ proc_ EXCEPT !.cmd = cmd, !.name = name, !.root = root,
                      !.environ = kproc.envv ]

\* HashMap::insert of every element of a set of entities
InsertAll(table, procs) ==
    LET new == { q.pid : q \in procs } IN
    [p \in DOMAIN table \cup new |->
        IF p \in new THEN CHOOSE q \in procs : q.pid = p ELSE table[p]]

\* System::refresh_procs: the process_list after the call.
refresh_procs(table, listing, si) ==
    IF Count(listing) < 1
    THEN table
    ELSE LET f == FetchAll(DOMAIN listing, listing, MarkAll(table), {}, si)
         IN InsertAll(Retain(f.table),
                      { FillNew(kp[1], kp[2]) : kp \in f.staged })

\* refresh_process returning true only when it inserted a new entity.
refresh_process_new_only(table, pid, listing, si) ==
    IF Count(listing) < 1
    THEN [table |-> table, ret |-> FALSE]
    ELSE LET r == IF pid \in DOMAIN listing
                  THEN get_process_data(listing[pid], table, si)
                  ELSE [table |-> table, ret |-> None]
         IN IF r.ret # None
            THEN [table |-> InsertAll(r.table, r.ret), ret |-> TRUE]
            ELSE [table |-> r.table, ret |-> FALSE]

\* System::refresh_process: the process_list after the call and the bool
\* returned.
refresh_process(table, pid, listing, si) ==
    IF Count(listing) < 1
    THEN [table |-> table, ret |-> FALSE]
    ELSE LET r == IF pid \in DOMAIN listing
                  THEN get_process_data(listing[pid], table, si)
                  ELSE [table |-> table, ret |-> None]
         IN IF r.ret # None
            THEN [table |-> InsertAll(r.table, r.ret), ret |-> TRUE]
            ELSE [table |-> r.table,
                  ret   |-> IF pid \in DOMAIN r.table
                            THEN r.table[pid].updated
                            ELSE FALSE]

\* SystemInfo::new: nb_cpus, fscale and page_size_k as read from the kernel.
SystemInfoNew ==
    [ nb_cpus     |-> Kernel.smp_cpus,
      fscale      |-> Kernel.fscale,
      page_size_k |-> Kernel.v_page_size \div 1000 ]

NoListing == << >>

\* System::new_with_specifics: an empty process table.
FbsdInit ==
    /\ process_list = << >>
    /\ system_info = SystemInfoNew
    /\ last_call = [op |-> "new", pid |-> 0, listing |-> NoListing,
                    held |-> {}, ret |-> FALSE, repeat |-> "no"]

\* System::refresh_processes, the kernel returning some listing of L.
RefreshProcesses(L) ==
    \E listing \in L :
        /\ process_list' = refresh_procs(process_list, listing, system_info)
        /\ last_call' = [op |-> "refresh_processes", pid |-> 0,
                         listing |-> listing,
                         held |-> DOMAIN process_list,
                         ret |-> FALSE, repeat |-> "no"]
        /\ UNCHANGED <<more_vars, system_info, linux_vars, pass_vars>>

\* Whether refresh_process(pid) reading listing repeats the call before it:
\* the same pid, with an identical kernel record.  "after_create" when the
\* call before created the entity, "after_update" when it found it held.
Repeat(call, pid, listing) ==
    IF /\ call.op = "refresh_process"
       /\ call.pid = pid
       /\ pid \in DOMAIN call.listing
       /\ pid \in DOMAIN listing
       /\ call.listing[pid] = listing[pid]
    THEN IF pid \notin call.held /\ ~Filtered(listing[pid])
         THEN "after_create"
         ELSE "after_update"
    ELSE "no"

\* System::refresh_process(pid), the kernel returning some listing of L.
RefreshProcess(L) ==
    \E pid \in Pids, listing \in L :
        LET r == refresh_process(process_list, pid, listing, system_info) IN
        /\ process_list' = r.table
        /\ last_call' = [op |-> "refresh_process", pid |-> pid,
                         listing |-> listing,
                         held |-> DOMAIN process_list,
                         ret |-> r.ret,
                         repeat |-> Repeat(last_call, pid, listing)]
        /\ UNCHANGED <<more_vars, system_info, linux_vars, pass_vars>>

\* System::processes
processes(table) == table

\* System::process(_pid)
process(table, pid) == None

\* System::process(pid) on the System; last_call keeps the pid asked and the
\* Option returned.
ProcessLookup ==
    \E pid \in Pids :
        /\ last_call' = [op |-> "process", pid |-> pid, listing |-> << >>,
                         held |-> DOMAIN process_list,
                         ret |-> process(process_list, pid),
                         repeat |-> "no"]
        /\ UNCHANGED <<more_vars, process_list, system_info, linux_vars,
                       pass_vars>>

(***************************************************************************)
(* Linux: Process (src/linux/process.rs).                                  *)
(***************************************************************************)
\* The modulus of u64 arithmetic at the modelled width.
U64Modulus == 2 ^ WordBits

Ticks == 0..MaxTick

\* total_time values sampled for compute_cpu_usage (each divides 100, so
\* that delta / total_time * 100 is an integer).
TotalTimes == {1, 2}

\* max_value handed to compute_cpu_usage: number of processors * 100.
MaxValue == Kernel.smp_cpus * 100

\* Process::new(pid, parent, start_time)
linux_Process_new(pid, parent_pid, start_time) ==
    [ name              |-> "",
      pid               |-> pid,
      parent            |-> parent_pid,
      cmd               |-> <<>>,
      environ           |-> <<>>,
      exe               |-> EmptyPath,
      cwd               |-> EmptyPath,
      root              |-> EmptyPath,
      memory            |-> 0,
      virtual_memory    |-> 0,
      cpu_usage         |-> 0,
      utime             |-> 0,
      stime             |-> 0,
      old_utime         |-> 0,
      old_stime         |-> 0,
      updated           |-> TRUE,
      start_time        |-> start_time,
      uid               |-> 0,
      gid               |-> 0,
      status            |-> "Unknown",
      tasks             |-> << >>,
      stat_file         |-> None,
      old_read_bytes    |-> 0,
      old_written_bytes |-> 0,
      read_bytes        |-> 0,
      written_bytes     |-> 0 ]

\* compute_cpu_usage without the first-cycle early return.
compute_cpu_usage_no_wait(p, total_time, max_value) ==
    [ p EXCEPT
        !.cpu_usage = Min((100 * (saturating_sub(p.utime, p.old_utime)
                                  + saturating_sub(p.stime, p.old_stime)))
                              \div total_time,
                          max_value),
        !.updated = FALSE ]

\* compute_cpu_usage without the cap at max_value.
compute_cpu_usage_no_cap(p, total_time, max_value) ==
    IF p.old_utime = 0 /\ p.old_stime = 0
    THEN p
    ELSE [ p EXCEPT
             !.cpu_usage = (100 * (saturating_sub(p.utime, p.old_utime)
                                   + saturating_sub(p.stime, p.old_stime)))
                               \div total_time,
             !.updated = FALSE ]

\* compute_cpu_usage(p, total_time, max_value)
compute_cpu_usage(p, total_time, max_value) ==
    IF p.old_utime = 0 /\ p.old_stime = 0
    THEN p
    ELSE [ p EXCEPT
             !.cpu_usage = Min((100 * (saturating_sub(p.utime, p.old_utime)
                                       + saturating_sub(p.stime, p.old_stime)))
                                   \div total_time,
                               max_value),
             !.updated = FALSE ]

\* set_time(p, utime, stime)
set_time(p, utime, stime) ==
    [ p EXCEPT !.old_utime = p.utime, !.old_stime = p.stime,
               !.utime = utime, !.stime = stime, !.updated = TRUE ]

\* has_been_updated(p)
has_been_updated(p) == p.updated

\* The io file of a process as get_all_data gives it: unreadable, or its
\* lines "<key>: <value>" in order; val is the value parsed as u64, None
\* when it is missing or does not parse.
IoLine(key, val) == [key |-> key, val |-> val]

IoVals == { Some(b) : b \in Bytes } \cup {None}

IoFiles ==
    { [ok |-> FALSE, lines |-> <<>>] }
    \cup { [ok |-> TRUE,
            lines |-> << IoLine("rchar", Some(0)), IoLine("read_bytes", r),
                         IoLine("write_bytes", w),
                         IoLine("cancelled_write_bytes", Some(0)) >>] :
            r \in IoVals, w \in IoVals }
    \cup { [ok |-> TRUE, lines |-> << IoLine("write_bytes", w) >>] :
            w \in IoVals }

\* update_process_disk_activity, the loop over the lines from line i on,
\* done matching lines seen so far.
RECURSIVE DiskLines(_, _, _, _)
DiskLines(p, lines, i, done) ==
    IF i > Len(lines) \/ done > 1
    THEN p
    ELSE LET line == lines[i] IN
         IF line.key = "read_bytes"
         THEN DiskLines([ p EXCEPT
                            !.old_read_bytes = p.read_bytes,
                            !.read_bytes = IF line.val # None
                                           THEN CHOOSE v \in line.val : TRUE
                                           ELSE p.read_bytes ],
                        lines, i + 1, done + 1)
         ELSE IF line.key = "write_bytes"
         THEN DiskLines([ p EXCEPT
                            !.old_written_bytes = p.written_bytes,
                            !.written_bytes = IF line.val # None
                                              THEN CHOOSE v \in line.val : TRUE
                                              ELSE p.written_bytes ],
                        lines, i + 1, done + 1)
         ELSE DiskLines(p, lines, i + 1, done)

\* update_process_disk_activity reading the io file twice over.
update_process_disk_activity_twice(p, io) ==
    IF ~io.ok THEN p
    ELSE DiskLines(DiskLines(p, io.lines, 1, 0), io.lines, 1, 0)

\* update_process_disk_activity(p, path), io the content of path/io
update_process_disk_activity(p, io) ==
    IF ~io.ok THEN p ELSE DiskLines(p, io.lines, 1, 0)

\* a - b on u64: the outcomes the builds produce.  With overflow checks the
\* subtraction panics when a < b, without them it wraps.
U64Sub(a, b) ==
    IF a >= b
    THEN { [panic |-> FALSE, val |-> a - b] }
    ELSE { [panic |-> TRUE, val |-> 0],
           [panic |-> FALSE, val |-> (a - b) % U64Modulus] }

\* Process::disk_usage: the set of outcomes of the call.
linux_disk_usage(p) ==
    { IF w.panic \/ r.panic
      THEN [ panic |-> TRUE, written_bytes |-> 0, total_written_bytes |-> 0,
             read_bytes |-> 0, total_read_bytes |-> 0 ]
      ELSE [ panic               |-> FALSE,
             written_bytes       |-> w.val,
             total_written_bytes |-> p.written_bytes,
             read_bytes          |-> r.val,
             total_read_bytes    |-> p.read_bytes ] :
      w \in U64Sub(p.written_bytes, p.old_written_bytes),
      r \in U64Sub(p.read_bytes, p.old_read_bytes) }

(***************************************************************************)
(* Linux: _get_process_data and refresh_procs (src/linux/process.rs).      *)
(*                                                                         *)
(* A directory of /proc is a function from the names of its folders to     *)
(* their content (a node).  A name is the sequence of its characters.  A   *)
(* node holds what the files of the folder give:                           *)
(*   stat    ok: the file opens and reads; parsed: parse_stat_file gives   *)
(*           Ok; and the fields the code reads from the parsed record      *)
(*   status  the (uid, gid) pair _get_uid_and_gid finds, or None           *)
(*   io      the io file (see IoFiles)                                     *)
(*   cmdline, environ (copy_from_file), exe (read_link), cwd, root         *)
(*   task    the task directory: None when read_dir fails                  *)
(***************************************************************************)
Digits == <<"0", "1", "2", "3", "4", "5", "6", "7", "8", "9">>

IsDigit(c) == \E i \in 1..10 : Digits[i] = c

DigitVal(c) == (CHOOSE i \in 1..10 : Digits[i] = c) - 1

\* The decimal value of the digits of s from position i on, acc the value
\* of those before; None when a character is no digit.
RECURSIVE ParseDigits(_, _, _)
ParseDigits(s, i, acc) ==
    IF i > Len(s) THEN Some(acc)
    ELSE IF ~IsDigit(s[i]) THEN None
    ELSE ParseDigits(s, i + 1, 10 * acc + DigitVal(s[i]))

\* Pid::from_str (i32): an optional sign, then at least one digit.
PidFromStr(s) ==
    IF s = <<>> THEN None
    ELSE IF s[1] = "+" THEN (IF Len(s) = 1 THEN None ELSE ParseDigits(s, 2, 0))
    ELSE IF s[1] = "-"
    THEN (IF Len(s) = 1 THEN None
          ELSE { 0 - v : v \in ParseDigits(s, 2, 0) })
    ELSE ParseDigits(s, 1, 0)

\* The name the kernel gives the folder of a pid below 100: its decimal
\* digits.
PidName(pid) ==
    IF pid < 10 THEN << Digits[pid + 1] >>
    ELSE << Digits[(pid \div 10) + 1], Digits[(pid % 10) + 1] >>

\* impl From<char> for ProcessStatus
LinuxStatusFrom(c) ==
    CASE c = "R" -> "Run"
      [] c = "S" -> "Sleep"
      [] c = "D" -> "Idle"
      [] c = "Z" -> "Zombie"
      [] c = "T" -> "Stop"
      [] c = "t" -> "Tracing"
      [] c \in {"X", "x"} -> "Dead"
      [] c = "K" -> "Wakekill"
      [] c = "W" -> "Waking"
      [] c = "P" -> "Parked"
      [] OTHER -> "Unknown"

\* _get_process_data: the get_status closure; part is the state field of
\* the record, the sequence of its characters.
get_status(p, part) ==
    [ p EXCEPT !.status = IF part = <<>> THEN "Unknown"
                          ELSE LinuxStatusFrom(part[1]) ]

\* check_nb_open_files keeping the file whatever the counter.
check_nb_open_files_always(remaining) ==
    [file |-> Some("File"), remaining |-> remaining - 1]

\* check_nb_open_files(f) with REMAINING_FILES = remaining: the Option<File>
\* returned and the counter after the call.
check_nb_open_files(remaining) ==
    IF remaining > 0
    THEN [file |-> Some("File"), remaining |-> remaining - 1]
    ELSE [file |-> None, remaining |-> remaining]

\* sysconf(_SC_CLK_TCK)
ClockCycle == 100

(***************************************************************************)
(* Linux: the stat file.  A text is the sequence of its characters.        *)
(***************************************************************************)
\* The position of the first c in s, 0 when there is none.
FirstIndexOf(s, c) ==
    IF \E i \in 1..Len(s) : s[i] = c
    THEN CHOOSE i \in 1..Len(s) : s[i] = c /\ \A j \in 1..(i - 1) : s[j] # c
    ELSE 0

\* The position of the last c in s, 0 when there is none.
LastIndexOf(s, c) ==
    IF \E i \in 1..Len(s) : s[i] = c
    THEN CHOOSE i \in 1..Len(s) :
            s[i] = c /\ \A j \in (i + 1)..Len(s) : s[j] # c
    ELSE 0

\* str::splitn(2, c): the items the iterator yields, the text before the
\* first c and the text after it; the whole text when it holds no c.
splitn2(s, c) ==
    LET i == FirstIndexOf(s, c) IN
    IF i = 0 THEN << s >>
    ELSE << SubSeq(s, 1, i - 1), SubSeq(s, i + 1, Len(s)) >>

\* rsplitn2 cutting at the first c instead of the last one.
rsplitn2_first(s, c) ==
    LET i == FirstIndexOf(s, c) IN
    IF i = 0 THEN << s >>
    ELSE << SubSeq(s, i + 1, Len(s)), SubSeq(s, 1, i - 1) >>

\* str::rsplitn(2, c): the items the iterator yields, the text after the
\* last c and then the text before it; the whole text when it holds no c.
rsplitn2(s, c) ==
    LET i == LastIndexOf(s, c) IN
    IF i = 0 THEN << s >>
    ELSE << SubSeq(s, i + 1, Len(s)), SubSeq(s, 1, i - 1) >>

\* str::split_whitespace from position i on: cur is the token being read,
\* acc the tokens read.
RECURSIVE SplitWs(_, _, _, _)
SplitWs(s, i, cur, acc) ==
    IF i > Len(s)
    THEN (IF cur = <<>> THEN acc ELSE Append(acc, cur))
    ELSE IF s[i] = " "
    THEN SplitWs(s, i + 1, <<>>, IF cur = <<>> THEN acc ELSE Append(acc, cur))
    ELSE SplitWs(s, i + 1, Append(cur, s[i]), acc)

\* str::split_whitespace
split_whitespace(s) == SplitWs(s, 1, <<>>, <<>>)

\* str::strip_prefix(c), the text left as it is when it does not start
\* with c.
strip_prefix_or_same(s, c) ==
    IF s # <<>> /\ s[1] = c THEN SubSeq(s, 2, Len(s)) ELSE s

\* parse_stat_file(data): Err(()) or Ok(parts).
parse_stat_file(data) ==
    LET it1 == splitn2(data, " ") IN
    IF Len(it1) < 2
    THEN [err |-> TRUE, parts |-> <<>>]
    ELSE LET it2 == rsplitn2(it1[2], ")") IN
         IF Len(it2) < 2
         THEN [err |-> TRUE, parts |-> <<>>]
         ELSE LET parts == << it1[1], it2[2] >> \o split_whitespace(it2[1])
              IN [err   |-> FALSE,
                  parts |-> [parts EXCEPT
                               ![2] = strip_prefix_or_same(parts[2], "(")]]

\* parts[k] of the code (the Vec is indexed from 0).
Part(parts, k) == parts[k + 1]

\* u64::from_str(s).unwrap_or(0)
U64FromStrOr0(s) ==
    LET v == IF s # <<>> /\ s[1] = "+"
             THEN (IF Len(s) = 1 THEN None ELSE ParseDigits(s, 2, 0))
             ELSE IF s = <<>> THEN None ELSE ParseDigits(s, 1, 0)
    IN IF v = None THEN 0 ELSE CHOOSE x \in v : TRUE

\* The indices of parts that _get_process_data and update_time_and_memory
\* read, in the order of the reads: for an entity already held, and for a
\* new one.
HeldReads == << 2, 23, 22, 13, 14 >>
NewReads == << 1, 3, 21, 2, 23, 22, 13, 14 >>

\* What _get_process_data makes of the content of the stat file: Err when
\* parse_stat_file fails, a panic when it indexes parts out of range, else
\* the fields it reads.
read_stat(data, held) ==
    LET r     == parse_stat_file(data)
        reads == IF held THEN HeldReads ELSE NewReads
    IN IF r.err
       THEN [outcome |-> "Err", stat |-> << >>]
       ELSE IF \E i \in 1..Len(reads) : reads[i] >= Len(r.parts)
       THEN [outcome |-> "panic", stat |-> << >>]
       ELSE [outcome |-> "Ok",
             stat |-> [ comm      |-> Part(r.parts, 1),
                        state     |-> Part(r.parts, 2),
                        ppid      |-> PidFromStr(Part(r.parts, 3)),
                        utime     |-> U64FromStrOr0(Part(r.parts, 13)),
                        stime     |-> U64FromStrOr0(Part(r.parts, 14)),
                        starttime |-> U64FromStrOr0(Part(r.parts, 21)),
                        vsize     |-> U64FromStrOr0(Part(r.parts, 22)),
                        rss       |-> U64FromStrOr0(Part(r.parts, 23)) ]]

\* The characters sampled for the command name of a stat record.
NameChars == {"a", " ", "(", ")"}

\* The command names sampled.
Names == UNION { [1..n -> NameChars] : n \in 0..MaxName }

\* The fields of a complete record after the command name: parts[2] to
\* parts[23] (state, ppid, ..., utime, stime, ..., starttime, vsize, rss).
FullFields ==
    [ i \in 1..22 |->
        CASE i = 1  -> <<"S">>
          [] i = 2  -> <<"1">>
          [] i = 12 -> <<"2">>
          [] i = 13 -> <<"3">>
          [] i = 20 -> <<"5">>
          [] i = 21 -> <<"8">>
          [] i = 22 -> <<"4">>
          [] OTHER  -> <<"0">> ]

\* The text " f1 f2 ... fn" of the fields from position i on.
RECURSIVE FieldsText(_, _)
FieldsText(fields, i) ==
    IF i > Len(fields) THEN <<>>
    ELSE <<" ">> \o fields[i] \o FieldsText(fields, i + 1)

\* The stat record the kernel writes for pid 1 with command name name:
\* "1 (name) S 1 0 ...".
StatText(name) ==
    <<"1", " ", "(">> \o name \o <<")">> \o FieldsText(FullFields, 1)

\* The position of the ")" that closes the command name in StatText(name).
ClosePos(name) == Len(name) + 4

NoStatOut ==
    [call |-> "none", err |-> FALSE, parts |-> <<>>, held |-> FALSE,
     outcome |-> "none"]

\* No stat file read yet.
StatInit ==
    /\ stat_rec = [name |-> <<>>, cut |-> 0, data |-> <<>>]
    /\ stat_out = NoStatOut

\* get_all_data_from_file: the content of the stat file, complete or cut
\* short at any character.  The file is read once, before anything is made
\* of its content.
ReadStat ==
    /\ stat_rec.cut = 0
    /\ stat_out.call = "none"
    /\ \E name \in Names :
        \E cut \in 0..Len(StatText(name)) :
            /\ stat_rec' = [name |-> name, cut |-> cut,
                            data |-> SubSeq(StatText(name), 1, cut)]
            /\ stat_out' = NoStatOut
            /\ UNCHANGED <<fill, lmem, lpass, lcall, agg_vars, session, fbsd_vars, linux_vars, pass_vars>>

\* parse_stat_file(&data)
ParseStatFile ==
    LET r == parse_stat_file(stat_rec.data) IN
    /\ stat_out' = [NoStatOut EXCEPT !.call = "parse_stat_file",
                                     !.err = r.err, !.parts = r.parts]
    /\ UNCHANGED <<fill, lmem, lpass, stat_rec, lcall, agg_vars, session, fbsd_vars, linux_vars, pass_vars>>

\* _get_process_data on a folder whose stat file gave stat_rec.data, for a
\* pid already held or not.
GetProcessDataStat ==
    \E held \in BOOLEAN :
        LET r == read_stat(stat_rec.data, held) IN
        /\ stat_out' = [NoStatOut EXCEPT !.call = "_get_process_data",
                                         !.held = held,
                                         !.outcome = r.outcome]
        /\ UNCHANGED <<fill, lmem, lpass, stat_rec, lcall, agg_vars, session, fbsd_vars, linux_vars, pass_vars>>

\* update_time_and_memory, the block before the nested refresh_procs.
TimeAndMemory(entry, stat, page_size_kb, parent_memory, parent_virtual_memory) ==
    LET rss == stat.rss * page_size_kb
        mem == IF rss >= parent_memory THEN rss - parent_memory ELSE rss
        vsz == stat.vsize
        vm  == IF vsz >= parent_virtual_memory
               THEN vsz - parent_virtual_memory ELSE vsz
    IN set_time([entry EXCEPT !.memory = mem, !.virtual_memory = vm],
                stat.utime, stat.stime)

\* _get_process_data building every entity from its own folder.
BuildProcessResolved(nb, node, owner, file, env) ==
    LET stat       == node.stat
        parent_pid == IF owner.pid # 0 THEN Some(owner.pid)
                      ELSE IF stat.ppid # 0 THEN Some(stat.ppid) ELSE None
        since_boot == stat.starttime \div ClockCycle
        start_time == saturating_sub(env.now,
                                     saturating_sub(env.uptime, since_boot))
        p0 == get_status([ linux_Process_new(nb, parent_pid, start_time)
                             EXCEPT !.stat_file = file ], stat.state)
        p1 == IF node.status # None
              THEN LET ug == CHOOSE x \in node.status : TRUE
                   IN [p0 EXCEPT !.uid = ug[1], !.gid = ug[2]]
              ELSE p0
    IN [ p1 EXCEPT !.name = stat.comm,
                   !.cmd = node.cmdline,
                   !.exe = IF node.exe # None
                           THEN CHOOSE x \in node.exe : TRUE
                           ELSE IF node.cmdline # <<>>
                                THEN node.cmdline[1] ELSE EmptyPath,
                   !.environ = node.environ,
                   !.cwd = node.cwd,
                   !.root = node.root ]

\* _get_process_data: the entity built for a pid not yet in the table,
\* before update_time_and_memory.
BuildProcess(nb, node, owner, file, env) ==
    LET stat       == node.stat
        parent_pid == IF owner.pid # 0 THEN Some(owner.pid)
                      ELSE IF stat.ppid # 0 THEN Some(stat.ppid) ELSE None
        since_boot == stat.starttime \div ClockCycle
        start_time == saturating_sub(env.now,
                                     saturating_sub(env.uptime, since_boot))
        p0 == get_status([ linux_Process_new(nb, parent_pid, start_time)
                             EXCEPT !.stat_file = file ], stat.state)
        p1 == IF node.status # None
              THEN LET ug == CHOOSE x \in node.status : TRUE
                   IN [p0 EXCEPT !.uid = ug[1], !.gid = ug[2]]
              ELSE p0
    IN IF owner.pid # 0
       THEN [ p1 EXCEPT !.cmd = owner.cmd, !.name = owner.name,
                        !.environ = owner.environ, !.exe = owner.exe,
                        !.cwd = owner.cwd, !.root = owner.root ]
       ELSE [ p1 EXCEPT !.name = stat.comm,
                        !.cmd = node.cmdline,
                        !.exe = IF node.exe # None
                                THEN CHOOSE x \in node.exe : TRUE
                                ELSE IF node.cmdline # <<>>
                                     THEN node.cmdline[1] ELSE EmptyPath,
                        !.environ = node.environ,
                        !.cwd = node.cwd,
                        !.root = node.root ]

\* Err(()) given after every held entity was marked as not updated.
GpdErrUnmarking(owner, remaining) ==
    [err |-> TRUE,
     owner |-> [owner EXCEPT !.tasks = [ t \in DOMAIN owner.tasks |->
                                 [owner.tasks[t] EXCEPT !.updated = FALSE] ]],
     remaining |-> remaining, new |-> None, nb |-> 0]

\* Result of _get_process_data: Err(()) or Ok((new, nb)), with the owner
\* (proc_list) and REMAINING_FILES as the call leaves them.
GpdErr(owner, remaining) ==
    [err |-> TRUE, owner |-> owner, remaining |-> remaining,
     new |-> None, nb |-> 0]

GpdOk(owner, remaining, new, nb) ==
    [err |-> FALSE, owner |-> owner, remaining |-> remaining,
     new |-> new, nb |-> nb]

\* impl Drop for Process: the units given back to REMAINING_FILES when p
\* is dropped, one for p when it holds its stat file and those of its
\* tasks, dropped with it.
RECURSIVE DropFiles(_)
RECURSIVE DropAll(_, _)
DropFiles(p) ==
    (IF p.stat_file # None THEN 1 ELSE 0) + DropAll(p.tasks, DOMAIN p.tasks)

\* The units given back when the entities of tasks keyed by todo are
\* dropped.
DropAll(tasks, todo) ==
    IF todo = {} THEN 0
    ELSE LET t == CHOOSE x \in todo : TRUE
         IN DropFiles(tasks[t]) + DropAll(tasks, todo \ {t})

RECURSIVE linux_get_process_data(_, _, _, _, _, _)
RECURSIVE update_time_and_memory(_, _, _, _, _, _, _)
RECURSIVE linux_refresh_procs(_, _, _, _, _)
RECURSIVE FetchFolders(_, _, _, _, _, _, _, _)

\* _get_process_data(path, proc_list, page_size_kb, pid, uptime, now): name
\* is the file name of path and node the content of the folder, owner is
\* proc_list.
linux_get_process_data(name, node, owner, pid, remaining, env) ==
    LET nbo == PidFromStr(name) IN
    IF nbo = None \/ nbo = Some(pid)
    THEN GpdErr(owner, remaining)
    ELSE
    LET nb == CHOOSE x \in nbo : TRUE
        parent_memory == owner.memory
        parent_virtual_memory == owner.virtual_memory
    IN
    IF nb \in DOMAIN owner.tasks
    THEN
        LET entry == owner.tasks[nb] IN
        IF ~node.stat.ok
        THEN GpdErr(owner, remaining)
        ELSE
        LET opened == IF entry.stat_file # None
                      THEN [file |-> entry.stat_file, remaining |-> remaining]
                      ELSE check_nb_open_files(remaining)
            e1 == [entry EXCEPT !.stat_file = opened.file]
        IN
        IF ~node.stat.parsed
        THEN GpdErr([owner EXCEPT !.tasks[nb] = e1], opened.remaining)
        ELSE
        LET e2 == get_status(e1, node.stat.state)
            r  == update_time_and_memory(node, e2, env, parent_memory,
                                         parent_virtual_memory, nb,
                                         opened.remaining)
            e3 == update_process_disk_activity(r.entry, node.io)
        IN GpdOk([owner EXCEPT !.tasks[nb] = e3], r.remaining, None, nb)
    ELSE
        IF ~node.stat.ok
        THEN GpdErr(owner, remaining)
        ELSE
        LET opened == check_nb_open_files(remaining) IN
        IF ~node.stat.parsed
        THEN GpdErr(owner, opened.remaining)
        ELSE
        LET p  == BuildProcess(nb, node, owner, opened.file, env)
            r  == update_time_and_memory(node, p, env, owner.memory,
                                         owner.virtual_memory, nb,
                                         opened.remaining)
            p3 == update_process_disk_activity(r.entry, node.io)
        IN GpdOk(owner, r.remaining, Some(p3), nb)

\* update_time_and_memory(path, entry, parts, page_size_kb, parent_memory,
\* parent_virtual_memory, pid, uptime, now)
update_time_and_memory(node, entry, env, parent_memory, parent_virtual_memory, pid, remaining) ==
    LET e == TimeAndMemory(entry, node.stat, env.page_size_kb, parent_memory,
                           parent_virtual_memory)
        r == linux_refresh_procs(e, node.task, pid, remaining, env)
    IN [entry |-> r.owner, remaining |-> r.remaining]

\* refresh_procs: the filter_map over the folders; new collects the new
\* entities and updated_pids the pids of the calls that gave Ok.
FetchFolders(todo, dir, owner, pid, remaining, env, new, updated_pids) ==
    IF todo = {}
    THEN [owner |-> owner, remaining |-> remaining, new |-> new,
          updated_pids |-> updated_pids]
    ELSE LET name == CHOOSE x \in todo : TRUE
         IN CHOOSE out \in
                { FetchFolders(todo \ {name}, dir, r.owner, pid, r.remaining,
                               env, new \cup r.new,
                               IF r.err THEN updated_pids
                               ELSE updated_pids \cup {r.nb}) :
                  r \in { linux_get_process_data(name, dir[name], owner, pid,
                                                 remaining, env) } } : TRUE

\* HashMap::insert of every element of a set of new entities into
\* proc_list.tasks
InsertTasks(owner, new) ==
    [owner EXCEPT !.tasks = InsertAll(owner.tasks, new)]

\* refresh_procs without the retain of the tasks fetched in this call.
linux_refresh_procs_no_retain(owner, dir, pid, remaining, env) ==
    IF dir = None
    THEN [owner |-> owner, remaining |-> remaining, ret |-> FALSE]
    ELSE
    LET folders == CHOOSE d \in dir : TRUE
    IN CHOOSE out \in
        { [owner |-> InsertTasks(f.owner, f.new),
           remaining |-> f.remaining, ret |-> TRUE] :
          f \in { FetchFolders(DOMAIN folders, folders, owner, pid,
                               remaining, env, {}, {}) } } : TRUE

\* refresh_procs(proc_list, path, page_size_kb, pid, uptime, now): dir is
\* what read_dir(path) gives (None when it fails), owner is proc_list.
linux_refresh_procs(owner, dir, pid, remaining, env) ==
    IF dir = None
    THEN [owner |-> owner, remaining |-> remaining, ret |-> FALSE]
    ELSE
    LET folders == CHOOSE d \in dir : TRUE
    IN CHOOSE out \in
        { IF pid = 0
          THEN [owner |-> InsertTasks(f.owner, f.new),
                remaining |-> f.remaining, ret |-> TRUE]
          ELSE LET keep == DOMAIN f.owner.tasks \cap f.updated_pids
                   kept == [f.owner EXCEPT
                              !.tasks = [t \in keep |-> f.owner.tasks[t]]]
               IN [owner |-> InsertTasks(kept, f.new),
                   remaining |-> f.remaining
                                 + DropAll(f.owner.tasks,
                                           DOMAIN f.owner.tasks \ keep),
                   ret |-> TRUE] :
          f \in { FetchFolders(DOMAIN folders, folders, owner, pid,
                               remaining, env, {}, {}) } } : TRUE

NoDiskUsage ==
    [ panic |-> FALSE, written_bytes |-> 0, total_written_bytes |-> 0,
      read_bytes |-> 0, total_read_bytes |-> 0 ]

\* Observations counted in lhist.nobs stop at this number.
ObsCap == 3

\* A Process right after Process::new.
LinuxInit ==
    /\ lproc = linux_Process_new(1, None, 0)
    /\ lhist = [last |-> "new", nobs |-> 0, total_time |-> 0]
    /\ ldisk = NoDiskUsage

\* set_time(lproc, utime, stime): one more observation of the entity.
SetTime ==
    \E utime \in Ticks, stime \in Ticks :
        /\ lproc' = set_time(lproc, utime, stime)
        /\ lhist' = [last |-> "set_time", nobs |-> Min(lhist.nobs + 1, ObsCap),
                     total_time |-> 0]
        /\ UNCHANGED <<more_vars, ldisk, fbsd_vars, pass_vars>>

\* compute_cpu_usage(lproc, total_time, max_value)
ComputeCpuUsage ==
    \E total_time \in TotalTimes :
        /\ lproc' = compute_cpu_usage(lproc, total_time, MaxValue)
        /\ lhist' = [lhist EXCEPT !.last = "compute_cpu_usage",
                                  !.total_time = total_time]
        /\ UNCHANGED <<more_vars, ldisk, fbsd_vars, pass_vars>>

\* update_process_disk_activity(lproc, path)
UpdateProcessDiskActivity ==
    \E io \in IoFiles :
        /\ lproc' = update_process_disk_activity(lproc, io)
        /\ lhist' = [lhist EXCEPT !.last = "update_process_disk_activity"]
        /\ UNCHANGED <<more_vars, ldisk, fbsd_vars, pass_vars>>

\* lproc.disk_usage()
DiskUsage ==
    \E du \in linux_disk_usage(lproc) :
        /\ ldisk' = du
        /\ lhist' = [lhist EXCEPT !.last = "disk_usage"]
        /\ UNCHANGED <<more_vars, lproc, fbsd_vars, pass_vars>>

\* The entity lproc before its first pass: not in the table.
EntityInit == lpass = [phase |-> "fetch", held |-> FALSE, observed |-> FALSE]

\* The fetch phase of a pass lists the entity: _get_process_data creates it
\* when it is not held, and calls set_time on it.
PassObserve ==
    /\ lpass.phase = "fetch"
    /\ \E utime \in Ticks, stime \in Ticks :
        lproc' = set_time(IF lpass.held THEN lproc
                          ELSE linux_Process_new(1, None, 0),
                          utime, stime)
    /\ lpass' = [phase |-> "cleanup", held |-> TRUE, observed |-> TRUE]
    /\ UNCHANGED <<fill, lmem, stat_vars, lcall, agg_vars, session, lhist, ldisk,
                   fbsd_vars, pass_vars>>

\* The fetch phase of a pass does not list the entity.
PassAbsent ==
    /\ lpass.phase = "fetch"
    /\ lpass' = [lpass EXCEPT !.phase = "cleanup", !.observed = FALSE]
    /\ UNCHANGED <<fill, lmem, stat_vars, lcall, agg_vars, session, linux_vars,
                   fbsd_vars, pass_vars>>

\* The cleanup of the pass: the entity is evicted when has_been_updated is
\* false, and compute_cpu_usage is called on it otherwise.
PassCleanup ==
    /\ lpass.phase = "cleanup"
    /\ IF lpass.held /\ has_been_updated(lproc)
       THEN /\ \E total_time \in TotalTimes :
                 lproc' = compute_cpu_usage(lproc, total_time, MaxValue)
            /\ lpass' = [lpass EXCEPT !.phase = "fetch"]
       ELSE /\ lproc' = lproc
            /\ lpass' = [lpass EXCEPT !.phase = "fetch", !.held = FALSE]
    /\ UNCHANGED <<fill, lmem, stat_vars, lcall, agg_vars, session, lhist, ldisk,
                   fbsd_vars, pass_vars>>

(***************************************************************************)
(* The full refresh pass, step by step.                                    *)
(*                                                                         *)
(* The main thread runs refresh_procs statement by statement (pass.pc);    *)
(* the closures handed to into_iter(..).for_each / filter_map run as       *)
(* workers, one per element, in any interleaving (rayon with the           *)
(* "multithread" feature).  for_each and collect return when every worker  *)
(* is done.  A build has one backend: the first pass fixes pass.backend.   *)
(***************************************************************************)
\* The names of the folders of /proc that are sampled: one per pid, and one
\* that is no pid.
AllNames == [i \in 1..(MaxPid + 1) |->
                IF i <= MaxPid THEN PidName(i) ELSE <<"s", "y", "s">>]

\* uptime, now and page_size_kb handed to refresh_procs.
LinuxEnv == [page_size_kb |-> 4, uptime |-> 100, now |-> 1000]

\* The folder of a thread tid.
TaskNode(tid, ok) ==
    [ stat    |-> [ ok |-> ok, parsed |-> TRUE, comm |-> "sh", state |-> <<"S">>,
                    ppid |-> 1, utime |-> 1, stime |-> 1, starttime |-> 500,
                    vsize |-> 8, rss |-> 2 ],
      status  |-> Some(<<0, 0>>),
      io      |-> [ok |-> FALSE, lines |-> <<>>],
      cmdline |-> << <<"/", "bin", "sh">> >>,
      exe     |-> Some(<<"/", "bin", "sh">>),
      environ |-> <<"HOME=/">>,
      cwd     |-> <<"/">>,
      root    |-> <<"/">>,
      task    |-> None ]

\* The folder /proc/<i>: the process i, its stat file readable or not, with
\* two threads, i itself and i + 10.
ProcNode(i, ok) ==
    [ TaskNode(i, ok) EXCEPT
        !.task = Some([ n \in {PidName(i), PidName(i + 10)} |->
                          TaskNode(IF n = PidName(i) THEN i ELSE i + 10, TRUE) ]) ]

\* No update_time_and_memory call made yet.
MemoryInit ==
    lmem = [called |-> FALSE, memory |-> 0, virtual_memory |-> 0,
            parent_memory |-> 0, parent_virtual_memory |-> 0]

\* update_time_and_memory on the entity lproc, up to its call of
\* refresh_procs: the readings of the row (rss in pages, vsize) and those of
\* the owning process (proc_list.memory, proc_list.virtual_memory).
UpdateTimeAndMemory ==
    \E rss \in Bytes, vsize \in Bytes, owner_rss \in Bytes, owner_vsize \in Bytes :
        LET stat == [TaskNode(1, TRUE).stat EXCEPT !.rss = rss, !.vsize = vsize]
            parent_memory == owner_rss * LinuxEnv.page_size_kb
        IN /\ lproc' = TimeAndMemory(lproc, stat, LinuxEnv.page_size_kb,
                                     parent_memory, owner_vsize)
           /\ lmem' = [called |-> TRUE,
                       memory |-> rss * LinuxEnv.page_size_kb,
                       virtual_memory |-> vsize,
                       parent_memory |-> parent_memory,
                       parent_virtual_memory |-> owner_vsize]
           /\ UNCHANGED <<fill, stat_vars, lcall, agg_vars, session, lpass, lhist,
                          ldisk, fbsd_vars, pass_vars>>

\* The contents sampled for the folder AllNames[i].
NodesOf(i) ==
    IF i <= MaxPid THEN { ProcNode(i, ok) : ok \in BOOLEAN }
    ELSE { TaskNode(0, FALSE) }

\* What read_dir("/proc") can give: the folders, by their index in AllNames.
ProcDirs ==
    UNION { { d \in [S -> UNION { NodesOf(i) : i \in S }] :
                \A i \in S : d[i] \in NodesOf(i) } :
            S \in SUBSET (1..(MaxPid + 1)) }

(***************************************************************************)
(* FreeBSD: the System aggregator (memory, swap, processors).              *)
(***************************************************************************)
\* Number of buckets of a cpu's tick counters, and the index of the idle one.
CPUSTATES == 5
CP_IDLE == 4

\* The named kernel parameters the code queries by name.
SysctlNames ==
    { "kern.smp.active", "kern.smp.cpus", "kern.fscale",
      "vm.stats.vm.v_page_size", "dev.cpu.N.freq", "hw.model" }

\* What the sampled kernel answers when a parameter is available.
AggKernel ==
    [ smp_active |-> 1, smp_cpus |-> 2, fscale |-> 1024,
      v_page_size |-> 4096, freq |-> 2400, model |-> "amd64",
      physmem |-> 8000, v_wire_count |-> 1, v_inactive_count |-> 1,
      v_cache_count |-> 0, v_free_count |-> 2, bufspace |-> 3,
      ksw_used |-> 1, ksw_total |-> 2 ]

\* The kernels sampled: whether kvm_openfiles succeeds and which named
\* parameters are available (all of them, or all but one).
KernelSamples ==
    { [open |-> o, avail |-> SysctlNames] : o \in BOOLEAN }
    \cup { [open |-> TRUE, avail |-> SysctlNames \ {n}] : n \in SysctlNames }

\* The entries of kern.cp_times that move: user, system and idle ticks of
\* cpu 0 and user ticks of cpu 1.
TickSlots == {1, 3, CP_IDLE + 1, CPUSTATES + 1}

RECURSIVE SumSeq(_)
\* The sum of a sequence of numbers.
SumSeq(v) == IF v = << >> THEN 0 ELSE Head(v) + SumSeq(Tail(v))

\* kern.cp_times: CPUSTATES counters for each cpu of the kernel.
KernCpTimes(k) == k.cp_times

\* kern.cp_time: the counters summed over the cpus.
KernCpTime(k) ==
    [ i \in 1..CPUSTATES |->
        SumSeq([ c \in 1..AggKernel.smp_cpus |->
                   k.cp_times[(c - 1) * CPUSTATES + i] ]) ]

\* get_sys_value_by_name(name, &mut value): Some(value) when the parameter
\* is available, None (false returned, value untouched) otherwise.
get_sys_value_by_name(k, name, value) ==
    IF name \in k.avail THEN Some(value) ELSE None

\* get_sys_value_array(mib, buffer): the buffer filled from the kernel
\* array, as many entries as the buffer has.
get_sys_value_array(array, buffer) == SubSeq(array, 1, Len(buffer))

\* utils::VecSwitcher: two buffers, the current and the previous sample.
VecSwitcher_new(v) == [new |-> v, old |-> v]

\* get_mut() followed by the write of sample into the buffer it returns:
\* the buffers are swapped, the former current sample is the previous one.
VecSwitcher_write(vs, sample) == [new |-> sample, old |-> vs.new]

RECURSIVE Gcd(_, _)
\* Greatest common divisor of two naturals.
Gcd(a, b) == IF b = 0 THEN a ELSE Gcd(b, a % b)

\* The f32 n / d kept exact: the fraction in lowest terms.
Ratio(n, d) == LET g == Gcd(n, d) IN << n \div g, d \div g >>

\* The f32 0.
ZeroUsage == << 0, 1 >>

\* Processor::new(name, vendor_id, frequency)
Processor_new(name, vendor_id, frequency) ==
    [ name |-> name, vendor_id |-> vendor_id, frequency |-> frequency,
      cpu_usage |-> ZeroUsage ]

\* The value of a System that was not built.
NoSystem == [ state |-> "none", panic |-> "" ]

\* SystemInfo::new on kernel k: the panic message, or "" and the SystemInfo.
SystemInfo_new(k) ==
    IF ~k.open
    THEN [ panic |-> "kvm_openfiles failed" ]
    ELSE
    LET active == get_sys_value_by_name(k, "kern.smp.active",
                                        AggKernel.smp_active)
        smp == IF active = None THEN 0 ELSE CHOOSE x \in active : TRUE
        cpus == get_sys_value_by_name(k, "kern.smp.cpus", AggKernel.smp_cpus)
        nb_cpus ==
            IF smp # 0
            THEN IF cpus = None \/ (CHOOSE x \in cpus : TRUE) < 1
                 THEN 1 ELSE CHOOSE x \in cpus : TRUE
            ELSE 1
        fs == get_sys_value_by_name(k, "kern.fscale", AggKernel.fscale)
        fscale == IF fs = None THEN DefaultFscale ELSE CHOOSE x \in fs : TRUE
        ps == get_sys_value_by_name(k, "vm.stats.vm.v_page_size",
                                    AggKernel.v_page_size)
    IN IF ps = None
       THEN [ panic |-> "cannot get page size..." ]
       ELSE [ panic |-> "",
              nb_cpus |-> nb_cpus,
              fscale |-> fscale,
              page_size_k |-> (CHOOSE x \in ps : TRUE) \div 1000,
              cp_time |-> VecSwitcher_new([ i \in 1..CPUSTATES |-> 0 ]),
              cp_times |->
                  VecSwitcher_new([ i \in 1..(nb_cpus * CPUSTATES) |-> 0 ]) ]

\* get_total_memory
get_total_memory(si, k) == AggKernel.physmem \div 1000

\* get_used_memory
get_used_memory(si, k) ==
    (k.v_active_count * si.page_size_k)
    + (AggKernel.v_wire_count * si.page_size_k)

\* get_free_memory
get_free_memory(si, k) ==
    AggKernel.bufspace
    + (AggKernel.v_inactive_count * si.page_size_k)
    + (AggKernel.v_cache_count * si.page_size_k)
    + (k.v_free_count * si.page_size_k)

\* get_swap_info: (used, total) of the one swap device of the kernel.
get_swap_info(si, k) ==
    << AggKernel.ksw_used * si.page_size_k,
       AggKernel.ksw_total * si.page_size_k >>

\* System::refresh_memory
refresh_memory(s, k) ==
    [ s EXCEPT
        !.mem_total = IF s.mem_total = 0
                      THEN get_total_memory(s.system_info, k)
                      ELSE s.mem_total,
        !.mem_used = get_used_memory(s.system_info, k),
        !.mem_free = get_free_memory(s.system_info, k),
        !.swap_total = get_swap_info(s.system_info, k)[2],
        !.swap_used = get_swap_info(s.system_info, k)[1] ]

\* fill_processor counting the idle bucket with the others.
fill_processor_with_idle(new_cp_time, old_cp_time) ==
    LET cp_diff == SumSeq([ i \in 1..CPUSTATES |->
                              new_cp_time[i] - old_cp_time[i] ])
        total_new == SumSeq(SubSeq(new_cp_time, 1, CPUSTATES))
        total_old == SumSeq(SubSeq(old_cp_time, 1, CPUSTATES))
        total_diff == total_new - total_old
    IN IF total_diff < 1 THEN ZeroUsage ELSE Ratio(cp_diff * 100, total_diff)

\* fill_processor(proc_, new_cp_time, old_cp_time): the cpu_usage it sets.
fill_processor(new_cp_time, old_cp_time) ==
    LET cp_diff == SumSeq([ i \in 1..CPUSTATES |->
                              IF i - 1 # CP_IDLE
                              THEN new_cp_time[i] - old_cp_time[i]
                              ELSE 0 ])
        total_new == SumSeq(SubSeq(new_cp_time, 1, CPUSTATES))
        total_old == SumSeq(SubSeq(old_cp_time, 1, CPUSTATES))
        total_diff == total_new - total_old
    IN IF total_diff < 1 THEN ZeroUsage ELSE Ratio(cp_diff * 100, total_diff)

\* fill_processor on any two samples, as the builds run it: the subtractions
\* new_cp_time[i] - old_cp_time[i] and total_new - total_old are unsigned,
\* so when a non-idle bucket or the total decreased the build with overflow
\* checks panics and the one without wraps; otherwise the outcome is the
\* one of fill_processor.
fill_processor_builds(new_cp_time, old_cp_time) ==
    LET NonIdle == { i \in 1..CPUSTATES : i - 1 # CP_IDLE }
        total_new == SumSeq(SubSeq(new_cp_time, 1, CPUSTATES))
        total_old == SumSeq(SubSeq(old_cp_time, 1, CPUSTATES))
        cp_diff == SumSeq([ i \in 1..CPUSTATES |->
                              IF i \in NonIdle
                              THEN (new_cp_time[i] - old_cp_time[i])
                                       % U64Modulus
                              ELSE 0 ]) % U64Modulus
        total_diff == (total_new - total_old) % U64Modulus
    IN IF \/ \E i \in NonIdle : new_cp_time[i] < old_cp_time[i]
          \/ total_new < total_old
       THEN { [ panic |-> TRUE, wrapped |-> FALSE, cpu_usage |-> ZeroUsage ],
              [ panic |-> FALSE, wrapped |-> TRUE,
                cpu_usage |-> IF total_diff < 1 THEN ZeroUsage
                              ELSE Ratio(cp_diff * 100, total_diff) ] }
       ELSE { [ panic |-> FALSE, wrapped |-> FALSE,
                cpu_usage |-> fill_processor(new_cp_time, old_cp_time) ] }

\* The samples of kern.cp_time drawn for fill_processor: user and idle ticks.
CpTimeSamples ==
    { [ i \in 1..CPUSTATES |->
          IF i = 1 THEN user ELSE IF i - 1 = CP_IDLE THEN idle ELSE 0 ] :
      user \in Ticks, idle \in Ticks }

\* The buffers as SystemInfo::new leaves them: zeros.
FillInit ==
    fill = [ called |-> FALSE, panic |-> FALSE, wrapped |-> FALSE,
             cpu_usage |-> ZeroUsage,
             new |-> [ i \in 1..CPUSTATES |-> 0 ],
             old |-> [ i \in 1..CPUSTATES |-> 0 ] ]

\* get_cpu_usage for the global processor: the kernel's sample becomes the
\* current one, the former current one the previous, and fill_processor
\* runs on the two.  The kernel's counters can have wrapped or been reset.
FillProcessor ==
    /\ ~fill.panic
    /\ \E sample \in CpTimeSamples :
        \E o \in fill_processor_builds(sample, fill.new) :
            fill' = [ called |-> TRUE, panic |-> o.panic,
                      wrapped |-> o.wrapped, cpu_usage |-> o.cpu_usage,
                      new |-> sample, old |-> fill.new ]
    /\ UNCHANGED <<stat_vars, lcall, agg_vars, session, lpass, lmem,
                   fbsd_vars, linux_vars, pass_vars>>

\* new_cp_times[index..] for the processor at position pos (from 0).
CoreSlice(cp_times, pos) ==
    SubSeq(cp_times, pos * CPUSTATES + 1, Len(cp_times))

\* SystemInfo::get_cpu_usage(global, processors) on System s.
get_cpu_usage(s, k) ==
    LET si == s.system_info
        cp_time == VecSwitcher_write(
                       si.cp_time,
                       get_sys_value_array(KernCpTime(k), si.cp_time.new))
        cp_times == VecSwitcher_write(
                        si.cp_times,
                        get_sys_value_array(KernCpTimes(k), si.cp_times.new))
    IN [ s EXCEPT
           !.system_info.cp_time = cp_time,
           !.system_info.cp_times = cp_times,
           !.global_processor.cpu_usage =
               fill_processor(cp_time.new, cp_time.old),
           !.processors =
               [ n \in DOMAIN s.processors |->
                   [ s.processors[n] EXCEPT
                       !.cpu_usage =
                           fill_processor(CoreSlice(cp_times.new, n - 1),
                                          CoreSlice(cp_times.old, n - 1)) ] ] ]

\* System::refresh_cpu
refresh_cpu(s, k) ==
    LET model == get_sys_value_by_name(k, "hw.model", AggKernel.model)
        vendor_id == IF model = None THEN "<unknown>"
                     ELSE CHOOSE x \in model : TRUE
        freq == get_sys_value_by_name(k, "dev.cpu.N.freq", AggKernel.freq)
        frequency == IF freq = None THEN 0 ELSE CHOOSE x \in freq : TRUE
        filled ==
            IF s.processors = << >>
            THEN [ s EXCEPT
                     !.processors =
                         [ n \in 1..s.system_info.nb_cpus |->
                             Processor_new(n - 1, vendor_id, frequency) ],
                     !.global_processor.vendor_id = vendor_id ]
            ELSE s
    IN get_cpu_usage(filled, k)

\* The groups a RefreshKind can ask for, of those modelled.
RefreshKinds == { {}, {"memory"}, {"cpu"}, {"memory", "cpu"} }

\* refresh_specifics(refreshes): the refreshes asked for, memory first.
refresh_specifics(s, k, refreshes) ==
    LET m == IF "memory" \in refreshes THEN refresh_memory(s, k) ELSE s
    IN IF "cpu" \in refreshes THEN refresh_cpu(m, k) ELSE m

\* System::new_with_specifics(refreshes) on kernel k.
new_with_specifics(k, refreshes) ==
    LET si == SystemInfo_new(k)
    IN IF si.panic # ""
       THEN [ state |-> "panic", panic |-> si.panic ]
       ELSE refresh_specifics(
                [ state |-> "built", panic |-> "",
                  mem_total |-> 0, mem_free |-> 0, mem_used |-> 0,
                  swap_total |-> 0, swap_used |-> 0,
                  global_processor |-> Processor_new("", "", 0),
                  processors |-> << >>,
                  system_info |-> si ],
                k, refreshes)

\* A kernel whose counters have not moved, and no System yet.
AggInit ==
    /\ kern = [ open |-> TRUE, avail |-> SysctlNames,
                cp_times |->
                    [ i \in 1..(AggKernel.smp_cpus * CPUSTATES) |-> 0 ],
                v_active_count |-> 1,
                v_free_count |-> AggKernel.v_free_count ]
    /\ sys = NoSystem
    /\ sys_call = [op |-> "none", since |-> {}, again |-> FALSE]

\* The System is built, on a kernel that is one of the samples.
NewWithSpecifics ==
    /\ sys.state = "none"
    /\ \E ks \in KernelSamples, refreshes \in RefreshKinds :
        /\ kern' = [ kern EXCEPT !.open = ks.open, !.avail = ks.avail ]
        /\ sys' = new_with_specifics(kern', refreshes)
        /\ sys_call' = [op |-> "new", since |-> refreshes, again |-> FALSE]
    /\ UNCHANGED <<fill, lmem, lpass, stat_vars, lcall, session, fbsd_vars, linux_vars, pass_vars>>

\* refresh_memory is called on the System.
RefreshMemory ==
    /\ sys.state = "built"
    /\ sys' = refresh_memory(sys, kern)
    /\ sys_call' = [op |-> "refresh_memory",
                    since |-> sys_call.since \cup {"memory"},
                    again |-> "memory" \in sys_call.since]
    /\ UNCHANGED <<fill, lmem, lpass, kern, stat_vars, lcall, session, fbsd_vars, linux_vars,
                   pass_vars>>

\* refresh_cpu is called on the System.
RefreshCpu ==
    /\ sys.state = "built"
    /\ sys' = refresh_cpu(sys, kern)
    /\ sys_call' = [op |-> "refresh_cpu",
                    since |-> sys_call.since \cup {"cpu"},
                    again |-> "cpu" \in sys_call.since]
    /\ UNCHANGED <<fill, lmem, lpass, kern, stat_vars, lcall, session, fbsd_vars, linux_vars,
                   pass_vars>>

\* One tick is counted by the kernel, in one bucket of one cpu.
KernelTick ==
    /\ SumSeq(kern.cp_times) < MaxTick
    /\ \E j \in TickSlots :
        kern' = [ kern EXCEPT !.cp_times[j] = @ + 1 ]
    /\ sys_call' = [op |-> "kernel", since |-> {}, again |-> FALSE]
    /\ UNCHANGED <<fill, lmem, lpass, sys, stat_vars, lcall, session, fbsd_vars, linux_vars,
                   pass_vars>>

\* A free page of the kernel becomes active, or an active one free.
KernelPage ==
    /\ \E d \in {-1, 1} :
        /\ kern.v_active_count + d \in 0..MaxBytes
        /\ kern.v_free_count - d >= 0
        /\ kern' = [ kern EXCEPT !.v_active_count = @ + d,
                                 !.v_free_count = @ - d ]
    /\ sys_call' = [op |-> "kernel", since |-> {}, again |-> FALSE]
    /\ UNCHANGED <<fill, lmem, lpass, sys, stat_vars, lcall, session, fbsd_vars, linux_vars,
                   pass_vars>>

(***************************************************************************)
(* FreeBSD: the kvm session of the System.                                 *)
(***************************************************************************)
\* libc::kvm_openfiles succeeding: one more session, open, its handle the
\* position of the session.
kvm_openfiles(kv) ==
    [ kv EXCEPT !.sessions =
        Append(@, [state |-> "open", closes |-> 0, used |-> {}]) ]

\* A kvm function other than kvm_close called on handle kd: misuse when
\* no open session has this handle.
kvm_call(kv, kd, fn) ==
    IF kd \in DOMAIN kv.sessions /\ kv.sessions[kd].state = "open"
    THEN [ kv EXCEPT !.sessions[kd].used = @ \cup {fn} ]
    ELSE [ kv EXCEPT !.misuse = TRUE ]

\* libc::kvm_close(kd)
kvm_close(kv, kd) ==
    IF kd \in DOMAIN kv.sessions /\ kv.sessions[kd].state = "open"
    THEN [ kv EXCEPT !.sessions[kd].state = "closed",
                     !.sessions[kd].closes = @ + 1 ]
    ELSE [ kv EXCEPT !.misuse = TRUE ]

\* Drop for SystemInfo that leaves the session open.
SystemInfo_drop_leak(kv, kd) == kv

\* Drop for SystemInfo holding handle kd.
SystemInfo_drop(kv, kd) == kvm_close(kv, kd)

\* The kvm calls of refresh_procs on handle kd: kvm_getprocs, then
\* kvm_getargv and kvm_getenvv when an entity is created.
refresh_procs_kvm(kv, kd, table, listing) ==
    LET got == kvm_call(kv, kd, "kvm_getprocs")
    IN IF Count(listing) < 1
          \/ \A p \in DOMAIN listing :
                p \in DOMAIN table \/ Filtered(listing[p])
       THEN got
       ELSE kvm_call(kvm_call(got, kd, "kvm_getargv"), kd, "kvm_getenvv")

\* No session was opened yet.
SessionInit == session = [sessions |-> << >>, kd |-> None, misuse |-> FALSE]

\* System::new_with_specifics: kvm_openfiles first; when SystemInfo::new
\* panics after it, the SystemInfo it was filling is dropped by the
\* unwinding.
SessionNew ==
    /\ sys.state = "none"
    /\ \E ks \in KernelSamples, refreshes \in RefreshKinds :
        /\ kern' = [ kern EXCEPT !.open = ks.open, !.avail = ks.avail ]
        /\ sys' = new_with_specifics(kern', refreshes)
        /\ session' =
             IF ~ks.open THEN session
             ELSE LET opened == kvm_openfiles(session)
                      kd == Len(opened.sessions)
                  IN IF sys'.state = "panic"
                     THEN SystemInfo_drop(opened, kd)
                     ELSE [ (IF "memory" \in refreshes
                             THEN kvm_call(opened, kd, "kvm_getswapinfo")
                             ELSE opened)
                            EXCEPT !.kd = Some(kd) ]
    /\ UNCHANGED <<fill, lmem, lpass, sys_call, stat_vars, lcall, fbsd_vars, linux_vars,
                   pass_vars>>

\* refresh_memory on the System: get_swap_info calls kvm_getswapinfo.
SessionRefreshMemory ==
    /\ sys.state = "built"
    /\ sys' = refresh_memory(sys, kern)
    /\ session' = kvm_call(session, CHOOSE kd \in session.kd : TRUE,
                           "kvm_getswapinfo")
    /\ UNCHANGED <<fill, lmem, lpass, kern, sys_call, stat_vars, lcall, fbsd_vars, linux_vars,
                   pass_vars>>

\* refresh_processes on the System, the kernel returning some listing of L.
SessionRefreshProcesses(L) ==
    /\ sys.state = "built"
    /\ \E listing \in L :
        /\ process_list' = refresh_procs(process_list, listing,
                                         sys.system_info)
        /\ session' = refresh_procs_kvm(session,
                                        CHOOSE kd \in session.kd : TRUE,
                                        process_list, listing)
    /\ UNCHANGED <<fill, lmem, lpass, kern, sys, sys_call, stat_vars, lcall, system_info,
                   last_call, linux_vars, pass_vars>>

\* refresh_process(pid) on the System: kvm_getprocs alone.
SessionRefreshProcess(L) ==
    /\ sys.state = "built"
    /\ \E pid \in Pids, listing \in L :
        /\ process_list' = refresh_process(process_list, pid, listing,
                                           sys.system_info).table
        /\ session' = kvm_call(session, CHOOSE kd \in session.kd : TRUE,
                               "kvm_getprocs")
    /\ UNCHANGED <<fill, lmem, lpass, kern, sys, sys_call, stat_vars, lcall, system_info,
                   last_call, linux_vars, pass_vars>>

\* The System is dropped, and its process table and SystemInfo with it.
SessionDrop ==
    /\ sys.state = "built"
    /\ sys' = [ state |-> "dropped", panic |-> "" ]
    /\ process_list' = << >>
    /\ session' = [ SystemInfo_drop(session, CHOOSE kd \in session.kd : TRUE)
                    EXCEPT !.kd = None ]
    /\ UNCHANGED <<fill, lmem, lpass, kern, sys_call, stat_vars, lcall, system_info, last_call,
                   linux_vars, pass_vars>>

\* The pids of the folders sampled for refresh_procs as one call.
FetchPids == {1, 2}

\* What the stat file of a folder gives: a record that parses, no content
\* (the file does not open or read), or a content parse_stat_file rejects.
StatKinds == {"ok", "unreadable", "unparsable"}

\* The folder /proc/<i> with a stat file of that kind.
FetchNode(i, kind) ==
    [ ProcNode(i, kind # "unreadable") EXCEPT
        !.stat.parsed = (kind # "unparsable") ]

\* What read_dir("/proc") can give: the folders by their name.
FetchDirs ==
    UNION { { [ n \in { PidName(p) : p \in S } |->
                  LET i == CHOOSE x \in PidFromStr(n) : TRUE
                  IN FetchNode(i, k[i]) ] :
              k \in [S -> StatKinds] } :
            S \in SUBSET FetchPids }

\* The folder /proc/<i> once the process changed owner, program and
\* directories, or once the pid was given to another process.
ChangedNode(i) ==
    [ ProcNode(i, TRUE) EXCEPT
        !.stat.comm = "ls", !.stat.starttime = 600,
        !.status = Some(<<1, 1>>),
        !.cmdline = << <<"/", "bin", "ls">> >>,
        !.exe = Some(<<"/", "bin", "ls">>),
        !.environ = <<"HOME=/root">>,
        !.cwd = <<"/", "root">>,
        !.root = <<"/", "jail">> ]

\* What read_dir("/proc") can give of pid 1: nothing, its folder, or its
\* folder after the change.
IdentDirs ==
    { << >> }
    \cup { [ n \in {PidName(1)} |-> node ] :
             node \in {ProcNode(1, TRUE), ChangedNode(1)} }

\* The thread ids /proc/1/task can list: 1 itself and the other threads.
TaskIds == {1, 11, 12}

\* The folder of the thread tid of a process, with a stat file of that kind:
\* the thread has a name, links and an environment of its own.
ThreadNode(tid, kind) ==
    [ TaskNode(tid, kind # "unreadable") EXCEPT
        !.stat.parsed = (kind # "unparsable"),
        !.stat.comm = "worker",
        !.cmdline = << <<"/", "bin", "worker">> >>,
        !.exe = Some(<<"/", "bin", "worker">>),
        !.environ = <<"HOME=/tmp">>,
        !.cwd = <<"/", "tmp">>,
        !.root = <<"/", "tmp">> ]

\* What read_dir("/proc") can give of pid 1 and its threads: nothing, or its
\* folder (before or after the change of program) with any of the threads
\* listed, each with a stat file of any kind.
TaskDirs ==
    { << >> }
    \cup UNION { { [ n \in {PidName(1)} |->
                      [ node EXCEPT
                          !.task = Some([ t \in { PidName(i) : i \in S } |->
                              ThreadNode(CHOOSE x \in PidFromStr(t) : TRUE,
                                         k[CHOOSE x \in PidFromStr(t) : TRUE])
                                        ]) ] ] :
                    k \in [S -> StatKinds],
                    node \in {ProcNode(1, TRUE), ChangedNode(1)} } :
                  S \in SUBSET TaskIds }

\* What read_dir("/proc") can give of pid 1 and its io file: nothing, or its
\* folder with the io file unreadable, whole, or with a value that does not
\* parse.
IoDirs ==
    { << >> }
    \cup { [ n \in {PidName(1)} |-> [ ProcNode(1, TRUE) EXCEPT !.io = f ] ] :
             f \in { io \in IoFiles :
                       \/ ~io.ok
                       \/ /\ Len(io.lines) = 4
                          /\ io.lines[2].val \in {None, Some(1)}
                          /\ io.lines[3].val \in {None, Some(MaxBytes)} } }

\* The listings of the first observations: nothing, pid 1 with blocks read
\* and written, or pid 2 alone.
FirstListings ==
    { l \in DiskListings :
        1 \in DOMAIN l => l[1].ru_inblock = 1 }

\* The names of dir whose fetch fails.
Failing(dir) ==
    { n \in DOMAIN dir : ~dir[n].stat.ok \/ ~dir[n].stat.parsed }

\* No refresh_procs call made yet.
FetchInit ==
    lcall = [dir |-> None, ret |-> FALSE, held |-> {}, tasks_held |-> {},
             remaining |-> 0]

\* refresh_procs(root, "/proc", page_size_kb, 0, uptime, now) as one call:
\* lcall keeps what read_dir gave, what the call returned, and the keys of
\* the table, the keys of the nested task tables and REMAINING_FILES before
\* the call.
LinuxRefreshProcs(Dirs) ==
    \E d \in {None} \cup { Some(dir) : dir \in Dirs } :
        \E r \in { linux_refresh_procs(lroot, d, 0, remaining_files,
                                       LinuxEnv) } :
           /\ lroot' = r.owner
           /\ remaining_files' = r.remaining
           /\ lcall' = [dir |-> d, ret |-> r.ret,
                        held |-> DOMAIN lroot.tasks,
                        tasks_held |->
                            UNION { DOMAIN lroot.tasks[p].tasks :
                                      p \in DOMAIN lroot.tasks },
                        remaining |-> remaining_files]
           /\ UNCHANGED <<fill, lmem, lpass, pass, stat_vars, agg_vars, session, fbsd_vars, linux_vars>>

\* The table entries a call touched: the key it looked up, and every entry
\* that differs after the call.
EntryAccesses(w, key, before, after) ==
    { [worker |-> w, target |-> "entry", key |-> key,
       write |-> key \in DOMAIN before] }
    \cup { [worker |-> w, target |-> "entry", key |-> k, write |-> TRUE] :
             k \in { x \in DOMAIN before \cup DOMAIN after :
                        \/ x \notin DOMAIN before
                        \/ x \notin DOMAIN after
                        \/ before[x] # after[x] } }

\* The access of a Linux worker to the fields of the shared root: a read of
\* pid, memory and virtual_memory, a write when a field differs after the
\* call.
RootAccesses(w, before, after) ==
    { [worker |-> w, target |-> "root", key |-> 0,
       write |-> [after EXCEPT !.tasks = before.tasks] # before] }

\* collect / for_each returning before the workers are done.
JoinedAtOnce(wstate) == TRUE

\* collect::<Vec<_>>() and for_each return once every worker is done.
Joined(wstate) == \A w \in DOMAIN wstate : wstate[w] = "done"

IdlePass ==
    [ backend |-> "none", pc |-> "idle", procs |-> << >>, folders |-> << >>,
      unmarked |-> {}, wstate |-> << >>, staged |-> {}, lnew |-> {},
      retain_todo |-> {}, accesses |-> {}, held |-> {} ]

PassInit ==
    /\ pass = IdlePass
    /\ lroot = linux_Process_new(0, None, 0)
    /\ remaining_files = InitialFiles

\* FreeBSD refresh_procs: kvm_getprocs, and the return when count < 1.
FStart ==
    /\ pass.pc = "idle"
    /\ pass.backend \in {"none", "freebsd"}
    /\ \E listing \in Listings :
          pass' = IF Count(listing) < 1
                  THEN [pass EXCEPT !.backend = "freebsd"]
                  ELSE [IdlePass EXCEPT !.backend = "freebsd", !.pc = "mark",
                                        !.procs = listing,
                                        !.unmarked = DOMAIN process_list,
                                        !.held = DOMAIN process_list]
    /\ UNCHANGED <<more_vars, fbsd_vars, linux_vars, lroot, remaining_files>>

\* FreeBSD refresh_procs: one closure of the for_each that marks.
FMark ==
    /\ pass.pc = "mark"
    /\ \E p \in pass.unmarked :
          /\ process_list' = [process_list EXCEPT ![p].updated = FALSE]
          /\ pass' = [pass EXCEPT !.unmarked = pass.unmarked \ {p}]
    /\ UNCHANGED <<more_vars, system_info, last_call, linux_vars, lroot, remaining_files>>

\* FreeBSD refresh_procs: for_each has returned; the filter_map starts.
FMarkDone ==
    /\ pass.pc = "mark"
    /\ pass.unmarked = {}
    /\ pass' = [pass EXCEPT !.pc = "fetch",
                            !.wstate = [w \in DOMAIN pass.procs |-> "ready"]]
    /\ UNCHANGED <<more_vars, fbsd_vars, linux_vars, lroot, remaining_files>>

\* A worker of the fetch phase starts on its element.
WorkerStart ==
    /\ pass.pc = "fetch"
    /\ \E w \in DOMAIN pass.wstate :
          /\ pass.wstate[w] = "ready"
          /\ pass' = [pass EXCEPT !.wstate[w] = "running"]
    /\ UNCHANGED <<more_vars, fbsd_vars, linux_vars, lroot, remaining_files>>

\* FreeBSD: a worker runs get_process_data on its record.
FWorkerRun ==
    /\ pass.pc = "fetch"
    /\ pass.backend = "freebsd"
    /\ \E w \in DOMAIN pass.wstate :
          /\ pass.wstate[w] = "running"
          /\ LET kproc == pass.procs[w]
                 r == get_process_data(kproc, process_list, system_info)
             IN /\ process_list' = r.table
                /\ pass' = [pass EXCEPT
                      !.wstate[w] = "done",
                      !.staged = pass.staged \cup { <<kproc, q>> : q \in r.ret },
                      !.accesses = pass.accesses \cup
                          IF Filtered(kproc) THEN {}
                          ELSE EntryAccesses(w, EntryKey(kproc), process_list,
                                             r.table) ]
    /\ UNCHANGED <<more_vars, system_info, last_call, linux_vars, lroot, remaining_files>>

\* FreeBSD refresh_procs: collect has returned; retain starts.
FCollect ==
    /\ pass.pc = "fetch"
    /\ pass.backend = "freebsd"
    /\ Joined(pass.wstate)
    /\ pass' = [pass EXCEPT !.pc = "retain",
                            !.retain_todo = DOMAIN process_list]
    /\ UNCHANGED <<more_vars, fbsd_vars, linux_vars, lroot, remaining_files>>

\* FreeBSD refresh_procs: retain visits one entry.
FRetain ==
    /\ pass.pc = "retain"
    /\ \E p \in pass.retain_todo :
          /\ process_list' =
                IF process_list[p].updated THEN process_list
                ELSE [q \in DOMAIN process_list \ {p} |-> process_list[q]]
          /\ pass' = [pass EXCEPT !.retain_todo = pass.retain_todo \ {p}]
    /\ UNCHANGED <<more_vars, system_info, last_call, linux_vars, lroot, remaining_files>>

\* FreeBSD refresh_procs: retain has returned; the insert loop starts.
FRetainDone ==
    /\ pass.pc = "retain"
    /\ pass.retain_todo = {}
    /\ pass' = [pass EXCEPT !.pc = "insert"]
    /\ UNCHANGED <<more_vars, fbsd_vars, linux_vars, lroot, remaining_files>>

\* FreeBSD refresh_procs: one round of the insert loop.
FInsert ==
    /\ pass.pc = "insert"
    /\ pass.backend = "freebsd"
    /\ \E kp \in pass.staged :
          /\ process_list' = InsertAll(process_list, {FillNew(kp[1], kp[2])})
          /\ pass' = [pass EXCEPT !.staged = pass.staged \ {kp}]
    /\ UNCHANGED <<more_vars, system_info, last_call, linux_vars, lroot, remaining_files>>

\* refresh_procs returns.
PassReturn ==
    /\ pass.pc = "insert"
    /\ pass.staged = {}
    /\ pass.lnew = {}
    /\ pass' = [pass EXCEPT !.pc = "idle"]
    /\ UNCHANGED <<more_vars, fbsd_vars, linux_vars, lroot, remaining_files>>

\* Linux refresh_procs(root, "/proc", .., 0, ..): read_dir and the folders.
LStart ==
    /\ pass.pc = "idle"
    /\ pass.backend \in {"none", "linux"}
    /\ \E dir \in ProcDirs :
          pass' = [IdlePass EXCEPT !.backend = "linux", !.pc = "fetch",
                                  !.folders = dir,
                                  !.held = DOMAIN lroot.tasks,
                                  !.wstate = [w \in DOMAIN dir |-> "ready"]]
    /\ UNCHANGED <<more_vars, fbsd_vars, linux_vars, lroot, remaining_files>>

\* Linux: a worker runs _get_process_data on its folder.
LWorkerRun ==
    /\ pass.pc = "fetch"
    /\ pass.backend = "linux"
    /\ \E w \in DOMAIN pass.wstate :
          /\ pass.wstate[w] = "running"
          /\ LET r == linux_get_process_data(AllNames[w], pass.folders[w],
                                             lroot, 0, remaining_files,
                                             LinuxEnv)
                 nbo == PidFromStr(AllNames[w])
             IN /\ lroot' = r.owner
                /\ remaining_files' = r.remaining
                /\ pass' = [pass EXCEPT
                      !.wstate[w] = "done",
                      !.lnew = pass.lnew \cup r.new,
                      !.accesses = pass.accesses \cup
                          IF nbo = None \/ nbo = Some(0) THEN {}
                          ELSE RootAccesses(w, lroot, r.owner) \cup
                               EntryAccesses(w, CHOOSE x \in nbo : TRUE,
                                             lroot.tasks, r.owner.tasks) ]
    /\ UNCHANGED <<more_vars, fbsd_vars, linux_vars>>

\* Linux refresh_procs: collect has returned; the for_each that inserts
\* starts.
LCollect ==
    /\ pass.pc = "fetch"
    /\ pass.backend = "linux"
    /\ Joined(pass.wstate)
    /\ pass' = [pass EXCEPT !.pc = "insert"]
    /\ UNCHANGED <<more_vars, fbsd_vars, linux_vars, lroot, remaining_files>>

\* Linux refresh_procs: one closure of the for_each that inserts.
LInsert ==
    /\ pass.pc = "insert"
    /\ pass.backend = "linux"
    /\ \E e \in pass.lnew :
          /\ lroot' = InsertTasks(lroot, {e})
          /\ pass' = [pass EXCEPT !.lnew = pass.lnew \ {e}]
    /\ UNCHANGED <<more_vars, fbsd_vars, linux_vars, remaining_files>>

(***************************************************************************)
(* Specifications.                                                         *)
(***************************************************************************)
Init ==
    /\ FbsdInit /\ LinuxInit /\ PassInit /\ StatInit /\ FetchInit
    /\ AggInit /\ SessionInit /\ EntityInit /\ MemoryInit /\ FillInit

Next ==
    \/ RefreshProcesses(Listings)
    \/ RefreshProcess(Listings)

Spec == Init /\ [][Next]_vars

\* The same calls, the kernel records differing in ki_pctcpu.
NextCpu ==
    \/ RefreshProcesses(CpuListings)
    \/ RefreshProcess(CpuListings)

SpecCpu == Init /\ [][NextCpu]_vars

\* The same calls on the listings of pid 1, alone or with pid 2.
NextRepeat ==
    \/ RefreshProcesses(RepeatListings)
    \/ RefreshProcess(RepeatListings)

SpecRepeat == Init /\ [][NextRepeat]_vars

\* The same calls, the kernel records differing in ru_inblock / ru_oublock.
NextDisk ==
    \/ RefreshProcesses(DiskListings)
    \/ RefreshProcess(DiskListings)

SpecDisk == Init /\ [][NextDisk]_vars

\* Linux: the CPU time samples of one entity.
NextLinuxCpu == SetTime \/ ComputeCpuUsage

SpecLinuxCpu == Init /\ [][NextLinuxCpu]_vars

\* Linux: one entity over the passes, each a fetch phase and a cleanup.
NextEntity == PassObserve \/ PassAbsent \/ PassCleanup

SpecEntity == Init /\ [][NextEntity]_vars

\* Linux: the table of /proc with the threads of pid 1 coming and going.
NextTasks == LinuxRefreshProcs(TaskDirs)

SpecTasks == Init /\ [][NextTasks]_vars

\* Both backends: the entities of pid 1 created, updated and created again.
NextFirst ==
    \/ RefreshProcesses(FirstListings)
    \/ LinuxRefreshProcs(IoDirs)

SpecFirst == Init /\ [][NextFirst]_vars

\* FreeBSD: the full refresh, the command line of pid 1 varying.
NextName == RefreshProcesses(NameListings)

SpecName == Init /\ [][NextName]_vars

\* FreeBSD: the refreshes and the lookup of a pid in the table.
NextLookup ==
    \/ RefreshProcesses(RepeatListings)
    \/ RefreshProcess(RepeatListings)
    \/ ProcessLookup

SpecLookup == Init /\ [][NextLookup]_vars

\* FreeBSD: fill_processor over consecutive samples of the tick counters.
NextFill == FillProcessor

SpecFill == Init /\ [][NextFill]_vars

\* Linux: the memory readings of one entity.
NextMemory == UpdateTimeAndMemory

SpecMemory == Init /\ [][NextMemory]_vars

\* Linux: the disk counters of one entity.
NextLinuxDisk == UpdateProcessDiskActivity \/ DiskUsage

SpecLinuxDisk == Init /\ [][NextLinuxDisk]_vars

\* Linux: the stat file of one process, read, parsed and consumed.
NextStat == ReadStat \/ ParseStatFile \/ GetProcessDataStat

SpecStat == Init /\ [][NextStat]_vars

\* The full refresh pass of either backend, step by step.
NextPass ==
    \/ FStart
    \/ FMark
    \/ FMarkDone
    \/ WorkerStart
    \/ FWorkerRun
    \/ FCollect
    \/ FRetain
    \/ FRetainDone
    \/ FInsert
    \/ PassReturn
    \/ LStart
    \/ LWorkerRun
    \/ LCollect
    \/ LInsert

SpecPass == Init /\ [][NextPass]_vars

\* Linux: the refresh of the whole table, one call a step.
NextFetch == LinuxRefreshProcs(FetchDirs)

\* Both backends, the kernel's records and the folders differing in the
\* attributes read at creation only.
NextIdent ==
    \/ RefreshProcesses(IdentListings)
    \/ RefreshProcess(IdentListings)
    \/ LinuxRefreshProcs(IdentDirs)

SpecIdent == Init /\ [][NextIdent]_vars

\* FreeBSD: the System built on a sampled kernel, its memory and cpu
\* refreshes, and the kernel's counters moving in between.
NextAgg ==
    \/ NewWithSpecifics
    \/ RefreshMemory
    \/ RefreshCpu
    \/ KernelTick
    \/ KernelPage

SpecAgg == Init /\ [][NextAgg]_vars

\* FreeBSD: the System from construction to teardown, with the handlers
\* that use its kvm session.
NextSession ==
    \/ SessionNew
    \/ SessionRefreshMemory
    \/ SessionRefreshProcesses(IdentListings)
    \/ SessionRefreshProcess(IdentListings)
    \/ SessionDrop

SpecSession == Init /\ [][NextSession]_vars

SpecFetch == Init /\ [][NextFetch]_vars

(***************************************************************************)
(* Claims on the FreeBSD System (Spec, SpecCpu).                           *)
(***************************************************************************)
\* The non-filtered pids of a listing: those get_process_data creates or
\* updates.
Alive(listing) == { p \in DOMAIN listing : ~Filtered(listing[p]) }

\* C1: after a full refresh (and after any other call) returns, every entity
\* held in process_list has updated = TRUE; none with updated = FALSE is
\* left in the table.
C1_AllUpdated ==
    \A p \in DOMAIN process_list : process_list[p].updated

\* C1 witness: a full refresh that found pids 1 and 2 in the table, kept and
\* updated pid 1 and evicted pid 2.
C1_Witness ==
    /\ last_call.op = "refresh_processes"
    /\ last_call.held = {1, 2}
    /\ 1 \in DOMAIN process_list
    /\ 2 \notin DOMAIN process_list
    /\ process_list[1].updated

\* C2 (as claimed): after refresh_processes returns, every pid that is a key
\* of process_list is in the kernel listing read by that pass, whatever the
\* listing was.
C2_KeysInListing ==
    last_call.op = "refresh_processes" =>
        DOMAIN process_list \subseteq DOMAIN last_call.listing

\* C3 (as claimed): refresh_process(pid) returns true if and only if the
\* listing it read holds pid as a non-filtered process.
C3_ReturnsAlive ==
    last_call.op = "refresh_process" =>
        (last_call.ret <=> last_call.pid \in Alive(last_call.listing))

\* C8 (as claimed): an entity created by the last call (its first
\* observation) reports cpu_usage 0, and every entity's cpu_usage lies in
\* [0, nb_cpus * 100].
C8_FirstZeroAndBounded ==
    \A p \in DOMAIN process_list :
        /\ p \notin last_call.held => process_list[p].cpu_usage = 0
        /\ process_list[p].cpu_usage >= 0
        /\ process_list[p].cpu_usage <= system_info.nb_cpus * 100

\* The pids whose record the last call handed to get_process_data and
\* that were not filtered out.
Touched(call) ==
    { p \in Alive(call.listing) :
        call.op = "refresh_processes"
            \/ (call.op = "refresh_process" /\ call.pid = p) }

\* C11: after every refresh, disk_usage() of every held entity gives the
\* deltas max(current - previous, 0) and the totals of the current
\* counters; the current counters of an entity the call sampled are the
\* ru_inblock / ru_oublock of its record, its previous ones are those that
\* were current before the call, and an entity the call did not sample
\* keeps its counters.
C11_DiskDeltas ==
    [][ \A p \in DOMAIN process_list' :
          LET e  == process_list'[p]
              du == freebsd_disk_usage(e)
          IN /\ du.read_bytes = Max(e.read_bytes - e.old_read_bytes, 0)
             /\ du.written_bytes =
                    Max(e.written_bytes - e.old_written_bytes, 0)
             /\ du.total_read_bytes = e.read_bytes
             /\ du.total_written_bytes = e.written_bytes
             /\ p \in Touched(last_call') =>
                    /\ e.read_bytes = last_call'.listing[p].ru_inblock
                    /\ e.written_bytes = last_call'.listing[p].ru_oublock
                    /\ p \in DOMAIN process_list =>
                          /\ e.old_read_bytes = process_list[p].read_bytes
                          /\ e.old_written_bytes =
                                process_list[p].written_bytes
             /\ (p \notin Touched(last_call') /\ p \in DOMAIN process_list) =>
                    e = process_list[p]
      ]_vars

\* C11 witness: a refresh sampled pid 1 with a read counter lower than the
\* previous sample and a write counter higher than the previous one.
C11_Witness ==
    /\ 1 \in DOMAIN process_list
    /\ 1 \in last_call.held
    /\ 1 \in Touched(last_call)
    /\ process_list[1].read_bytes < process_list[1].old_read_bytes
    /\ process_list[1].written_bytes > process_list[1].old_written_bytes
    /\ freebsd_disk_usage(process_list[1]).read_bytes = 0
    /\ freebsd_disk_usage(process_list[1]).written_bytes > 0

\* The dynamic fields of a FreeBSD entity.
DynamicFields(e) ==
    [ status |-> e.status, memory |-> e.memory,
      virtual_memory |-> e.virtual_memory, cpu_usage |-> e.cpu_usage,
      run_time |-> e.run_time, parent |-> e.parent ]

\* C12: a refresh_process(pid) that repeats the call before it (same pid,
\* identical kernel record) returns what that call returned and leaves the
\* entity held or not as it was; a held entity keeps the dynamic fields it
\* had after the first call and has updated = TRUE.
C12_RefreshProcessIdempotent ==
    [][ last_call'.repeat # "no" =>
          LET pid == last_call'.pid IN
          /\ last_call'.ret = last_call.ret
          /\ (pid \in DOMAIN process_list') = (pid \in DOMAIN process_list)
          /\ pid \in DOMAIN process_list' =>
                /\ DynamicFields(process_list'[pid])
                      = DynamicFields(process_list[pid])
                /\ process_list'[pid].updated
      ]_vars

\* C12 witness: the second of two identical refresh_process calls, the
\* first of which created the entity with a cpu usage above zero.
C12_Witness ==
    /\ last_call.repeat = "after_create"
    /\ last_call.ret
    /\ last_call.pid \in DOMAIN process_list
    /\ process_list[last_call.pid].cpu_usage > 0

(***************************************************************************)
(* Claims on the Linux Process (SpecLinuxCpu, SpecLinuxDisk).              *)
(***************************************************************************)
\* The tick deltas of the last two samples, clamped at zero.
DeltaTicks(p) == Max(p.utime - p.old_utime, 0) + Max(p.stime - p.old_stime, 0)

\* The usage the two last samples of p give over total_time.
ExpectedUsage(p, total_time) ==
    Min((100 * DeltaTicks(p)) \div total_time, MaxValue)

\* C6 (as claimed): on the second observation (second set_time, then
\* compute_cpu_usage) cpu_usage is min(delta ticks / total_time * 100,
\* max_value) for every pair of samples, and positive when the ticks
\* advanced.  The deltas are read as clamped at zero.
C6_SecondObservationUsage ==
    (lhist.nobs = 2 /\ lhist.last = "compute_cpu_usage") =>
        /\ lproc.cpu_usage = ExpectedUsage(lproc, lhist.total_time)
        /\ DeltaTicks(lproc) > 0 => lproc.cpu_usage > 0

\* C7: on the first observation (Process::new, one set_time, then
\* compute_cpu_usage) cpu_usage is 0 whatever the ticks of the sample.
C7_FirstObservationZero ==
    (lhist.nobs = 1 /\ lhist.last = "compute_cpu_usage") =>
        lproc.cpu_usage = 0

\* C7 witness: compute_cpu_usage ran after a first sample with ticks > 0.
C7_Witness ==
    /\ lhist.nobs = 1
    /\ lhist.last = "compute_cpu_usage"
    /\ lproc.utime > 0
    /\ lproc.stime > 0

\* C9: after any sequence of set_time / compute_cpu_usage calls cpu_usage
\* is within [0, max_value], and a usage that compute_cpu_usage has just set
\* is the one of the tick deltas clamped at zero.
C9_UsageInRange ==
    /\ lproc.cpu_usage >= 0
    /\ lproc.cpu_usage <= MaxValue
    /\ (lhist.last = "compute_cpu_usage"
            /\ ~(lproc.old_utime = 0 /\ lproc.old_stime = 0)) =>
          lproc.cpu_usage = ExpectedUsage(lproc, lhist.total_time)

\* C9 witness: compute_cpu_usage ran on samples where utime decreased and
\* stime advanced enough to hit the cap.
C9_Witness ==
    /\ lhist.last = "compute_cpu_usage"
    /\ lproc.utime < lproc.old_utime
    /\ lproc.stime > lproc.old_stime
    /\ lproc.cpu_usage = MaxValue

\* C10 (as claimed): disk_usage() returns read_bytes = max(read_bytes -
\* old_read_bytes, 0) and written_bytes = max(written_bytes -
\* old_written_bytes, 0), with no panic and no wrap-around.
C10_DiskUsageClamped ==
    lhist.last = "disk_usage" =>
        /\ ~ldisk.panic
        /\ ldisk.read_bytes = Max(lproc.read_bytes - lproc.old_read_bytes, 0)
        /\ ldisk.written_bytes =
              Max(lproc.written_bytes - lproc.old_written_bytes, 0)

\* C13: parse_stat_file on a record "<pid> (<name>) <f3> <f4> ..." (cut
\* short or not after the ")" that closes the name) gives parts[0] = pid,
\* parts[1] = name exactly, whatever spaces and parentheses the name
\* holds, and then the fields after the name, in order.
C13_ParseStatFile ==
    (stat_out.call = "parse_stat_file"
        /\ stat_rec.cut >= ClosePos(stat_rec.name)) =>
       /\ ~stat_out.err
       /\ stat_out.parts =
             << <<"1">>, stat_rec.name >>
             \o SubSeq(FullFields, 1,
                       (stat_rec.cut - ClosePos(stat_rec.name)) \div 2)

\* C13 witness: a complete record parsed, its name holding a ")" before a
\* "(".
C13_Witness ==
    /\ stat_out.call = "parse_stat_file"
    /\ stat_rec.cut = Len(StatText(stat_rec.name))
    /\ stat_rec.name = <<")", "(">>
    /\ Len(stat_out.parts) = 24

\* C14 (as claimed): for every stat record cut short, _get_process_data
\* returns Err and does not panic.
C14_TruncatedGivesErr ==
    (stat_out.call = "_get_process_data"
        /\ stat_rec.cut < Len(StatText(stat_rec.name))) =>
       stat_out.outcome = "Err"

(***************************************************************************)
(* Claims on the full refresh pass (SpecPass).                             *)
(***************************************************************************)
NoWorkerStarted == \A w \in DOMAIN pass.wstate : pass.wstate[w] = "ready"

AllWorkersDone == \A w \in DOMAIN pass.wstate : pass.wstate[w] = "done"

\* A step that marks an entity updated = false.
MarkStep ==
    \E p \in DOMAIN process_list \cap DOMAIN process_list' :
        process_list[p].updated /\ ~process_list'[p].updated

\* A step in which a worker of the fetch phase starts or runs.
FetchStep ==
    \E w \in DOMAIN pass.wstate \cap DOMAIN pass'.wstate :
        pass.wstate[w] # pass'.wstate[w]

\* A step that removes an entity from the table.
EvictStep == DOMAIN process_list \ DOMAIN process_list' # {}

\* A step that adds an entity to the table.
InsertStep ==
    \/ DOMAIN process_list' \ DOMAIN process_list # {}
    \/ DOMAIN lroot'.tasks \ DOMAIN lroot.tasks # {}

\* C4: in a full refresh pass the marking comes before any fetch (no
\* marking once a worker has started, and the first worker starts on a table
\* where every entity is marked), every fetch is over before the first
\* eviction, every eviction is over before the first insertion (which finds
\* no stale entity left), and the table changes its keys only while no
\* worker is running.
C4_PhasesOrdered ==
    [][ /\ MarkStep => NoWorkerStarted
        /\ (FetchStep /\ NoWorkerStarted /\ pass.backend = "freebsd") =>
              \A p \in DOMAIN process_list : ~process_list[p].updated
        /\ EvictStep => AllWorkersDone
        /\ InsertStep =>
              /\ AllWorkersDone
              /\ \A p \in DOMAIN process_list : process_list[p].updated
        /\ (DOMAIN process_list' # DOMAIN process_list
              \/ DOMAIN lroot'.tasks # DOMAIN lroot.tasks) =>
              \A w \in DOMAIN pass.wstate : pass.wstate[w] # "running"
      ]_vars

\* C4 witness: a FreeBSD pass that found pid 2 held, marked it, fetched the
\* record of pid 1, evicted pid 2 and is about to insert pid 1.
C4_Witness ==
    /\ pass.backend = "freebsd"
    /\ pass.pc = "insert"
    /\ pass.held = {2}
    /\ DOMAIN pass.procs = {1}
    /\ DOMAIN process_list = {}
    /\ pass.staged # {}

\* C5: in the fetch phase no two workers touch the same table entry, and
\* the fields of the shared root are only read.
C5_DisjointSlots ==
    /\ \A a, b \in pass.accesses :
          (a.worker # b.worker /\ a.target = "entry" /\ b.target = "entry")
              => a.key # b.key
    /\ \A a \in pass.accesses : a.target = "root" => ~a.write

\* C5 witness: a Linux pass in which two workers each wrote the entry of
\* their own pid and read the root.
C5_Witness ==
    /\ pass.backend = "linux"
    /\ \E a, b \in pass.accesses :
          /\ a.worker # b.worker
          /\ a.target = "entry" /\ a.write
          /\ b.target = "entry" /\ b.write
    /\ \E c \in pass.accesses : c.target = "root"

(***************************************************************************)
(* Claims on the Linux refresh as one call (SpecFetch).                    *)
(***************************************************************************)
\* dir without the folders whose fetch fails.
WithoutFailing(dir) == [ n \in DOMAIN dir \ Failing(dir) |-> dir[n] ]

\* C15 (as claimed): when the fetch of listed pids fails, refresh_procs
\* returns true and every other listed pid is held after the call exactly
\* as the same call makes it when the failing pids are not listed.
C15_FailingPidSkipped ==
    [][ lcall'.dir # None =>
          LET dir == CHOOSE d \in lcall'.dir : TRUE
              alone == linux_refresh_procs(lroot, Some(WithoutFailing(dir)),
                                           0, remaining_files, LinuxEnv)
          IN /\ lcall'.ret
             /\ \A n \in DOMAIN dir \ Failing(dir) :
                   LET p == CHOOSE x \in PidFromStr(n) : TRUE
                   IN /\ p \in DOMAIN lroot'.tasks
                      /\ lroot'.tasks[p] = alone.owner.tasks[p]
      ]_vars

\* An entity with the stat file it may hold left out, and the same for
\* its tasks.
RECURSIVE Uncached(_)
Uncached(e) ==
    [ e EXCEPT !.stat_file = None,
               !.tasks = [ t \in DOMAIN e.tasks |-> Uncached(e.tasks[t]) ] ]

\* Whether no entity of the table keyed by one of keys, and no task of
\* them, holds a stat file.
NoneCached(tasks, keys) ==
    \A p \in keys :
        /\ tasks[p].stat_file = None
        /\ \A t \in DOMAIN tasks[p].tasks : tasks[p].tasks[t].stat_file = None

\* C19: REMAINING_FILES never goes below 0; a refresh that starts with
\* REMAINING_FILES at 0 creates and updates the same entities with the same
\* fields as the same refresh with files to spare, apart from the stat
\* files kept open, and every entity it creates, or finds without its stat
\* file, holds none after the call.
C19_BudgetExhausted ==
    [][ /\ remaining_files' >= 0
        /\ (remaining_files = 0 /\ lcall'.dir # None) =>
              LET dir == CHOOSE d \in lcall'.dir : TRUE
                  spare == linux_refresh_procs(
                               lroot, lcall'.dir, 0,
                               4 * Cardinality(DOMAIN dir), LinuxEnv)
              IN /\ Uncached(lroot') = Uncached(spare.owner)
                 /\ remaining_files' = 0
                 /\ NoneCached(lroot'.tasks,
                               { p \in DOMAIN lroot'.tasks :
                                   \/ p \notin DOMAIN lroot.tasks
                                   \/ NoneCached(lroot.tasks, {p}) })
      ]_vars

\* C19 witness: a refresh that started with REMAINING_FILES at 0 created
\* pid 2, which holds no stat file, next to pid 1, which holds one.
C19_Witness ==
    /\ lcall.remaining = 0
    /\ remaining_files = 0
    /\ 2 \notin lcall.held
    /\ 2 \in DOMAIN lroot.tasks
    /\ lroot.tasks[2].stat_file = None
    /\ 1 \in DOMAIN lroot.tasks
    /\ lroot.tasks[1].stat_file # None

(***************************************************************************)
(* Claims on the FreeBSD System aggregator (SpecAgg).                      *)
(***************************************************************************)
\* C16 (as claimed): building the System panics only when the kernel
\* session cannot be opened; whatever named parameter is unavailable, the
\* System is built, refresh_cpu completes, and nb_cpus is 1, fscale is
\* DefaultFscale and the frequency of every processor is 0 when their
\* parameter is the unavailable one.
C16_UnavailableNeverFatal ==
    sys.state # "none" =>
        /\ (sys.state = "panic") <=> ~kern.open
        /\ sys.state = "built" =>
            /\ ("kern.smp.active" \notin kern.avail
                    \/ "kern.smp.cpus" \notin kern.avail)
                  => sys.system_info.nb_cpus = 1
            /\ "kern.fscale" \notin kern.avail
                  => sys.system_info.fscale = DefaultFscale
            /\ "dev.cpu.N.freq" \notin kern.avail
                  => \A n \in DOMAIN sys.processors :
                         sys.processors[n].frequency = 0

\* The ticks of the non-idle buckets of the CPUSTATES counters from
\* position first of v, and the ticks of all of them.
NonIdleTicks(v, first) == v[first] + v[first + 1] + v[first + 2] + v[first + 3]
AllTicks(v, first) == NonIdleTicks(v, first) + v[first + CP_IDLE]

\* Whether usage is what the previous and the current sample of the
\* counters at position first give: 0 when the total did not move, 100
\* times the non-idle delta over the total delta otherwise.
UsageOf(usage, prev, cur, first) ==
    IF AllTicks(cur, first) = AllTicks(prev, first)
    THEN usage = ZeroUsage
    ELSE usage[1] * (AllTicks(cur, first) - AllTicks(prev, first))
            = 100 * (NonIdleTicks(cur, first) - NonIdleTicks(prev, first))
                  * usage[2]

\* C17: after refresh_cpu the usage of the global processor and of every
\* core is 0 when the total tick count of the kernel is the one of the
\* previous sample, and otherwise 100 times the sum of the deltas of the
\* non-idle buckets over the delta of the sum of all buckets.
C17_CpuUsageFormula ==
    [][ sys_call'.op = "refresh_cpu" =>
          /\ UsageOf(sys'.global_processor.cpu_usage,
                     sys.system_info.cp_time.new, KernCpTime(kern), 1)
          /\ \A n \in DOMAIN sys'.processors :
                UsageOf(sys'.processors[n].cpu_usage,
                        sys.system_info.cp_times.new, KernCpTimes(kern),
                        (n - 1) * CPUSTATES + 1)
      ]_vars

\* C17 witness: refresh_cpu found one busy and one idle tick more on cpu 0
\* and none on cpu 1: 50% for the global processor and for core 0, 0 for
\* core 1.
C17_Witness ==
    /\ sys_call.op = "refresh_cpu"
    /\ sys.global_processor.cpu_usage = << 50, 1 >>
    /\ Len(sys.processors) = 2
    /\ sys.processors[1].cpu_usage = << 50, 1 >>
    /\ sys.processors[2].cpu_usage = ZeroUsage

\* The memory and swap fields of the System.
MemorySnapshot(s) ==
    << s.mem_total, s.mem_used, s.mem_free, s.swap_total, s.swap_used >>

\* The usage of the global processor and of every core.
CpuSnapshot(s) ==
    << s.global_processor.cpu_usage,
       [ n \in DOMAIN s.processors |-> s.processors[n].cpu_usage ] >>

\* C18 (as claimed): refresh_memory, and refresh_cpu, called again with no
\* change of the kernel since the call before leave the memory and swap
\* fields, and the usage of the global processor and of every core, as
\* the call before left them.
C18_RefreshIdempotent ==
    [][ /\ (sys_call'.op = "refresh_memory" /\ "memory" \in sys_call.since)
            => MemorySnapshot(sys') = MemorySnapshot(sys)
        /\ (sys_call'.op = "refresh_cpu" /\ "cpu" \in sys_call.since)
            => CpuSnapshot(sys') = CpuSnapshot(sys)
      ]_vars

(***************************************************************************)
(* Claims on the attributes set at creation (SpecIdent).                   *)
(***************************************************************************)
\* The attributes of an entity that identify the process.
IdentityFields(e) ==
    << e.pid, e.start_time, e.name, e.cmd, e.exe, e.cwd, e.root, e.environ,
       e.uid, e.gid >>

\* Whether every entity held in both tables has the same identity fields
\* in both.
SameIdentity(before, after) ==
    \A p \in DOMAIN before \cap DOMAIN after :
        IdentityFields(after[p]) = IdentityFields(before[p])

\* C20: a refresh leaves pid, start_time, name, cmd, exe, cwd, root,
\* environ, uid and gid of every entity it finds held as they were, in the
\* FreeBSD table and in the Linux table and the tasks of its entities.
C20_IdentitySetOnce ==
    [][ /\ SameIdentity(process_list, process_list')
        /\ SameIdentity(lroot.tasks, lroot'.tasks)
        /\ \A p \in DOMAIN lroot.tasks \cap DOMAIN lroot'.tasks :
              SameIdentity(lroot.tasks[p].tasks, lroot'.tasks[p].tasks)
      ]_vars

\* C20 witness: the last refresh of each backend found pid 1 held and read
\* the changed record and folder; the entities still have the owner and
\* the start time they were created with.
C20_Witness ==
    /\ last_call.op = "refresh_processes"
    /\ 1 \in last_call.held
    /\ 1 \in DOMAIN last_call.listing
    /\ last_call.listing[1] = ChangedKProc(1)
    /\ process_list[1].uid = BaseKProc(1).ki_ruid
    /\ process_list[1].start_time = BaseKProc(1).ki_start
    /\ 1 \in lcall.held
    /\ lcall.dir = Some([ n \in {PidName(1)} |-> ChangedNode(1) ])
    /\ lroot.tasks[1].uid = 0
    /\ lroot.tasks[1].name = "sh"

(***************************************************************************)
(* Claims on the kvm session of the System (SpecSession).                  *)
(***************************************************************************)
\* C21: the System opens one kvm session, at construction; every kvm call
\* of its handlers is made on the handle of that session while it is open;
\* the session is closed once, when the System (or the SystemInfo of a
\* construction that panics) is dropped, and no kvm call follows.
C21_SessionLifecycle ==
    /\ ~session.misuse
    /\ Len(session.sessions) <= 1
    /\ sys.state = "none" => session.sessions = << >>
    /\ sys.state = "built" =>
          /\ session.kd = Some(1)
          /\ Len(session.sessions) = 1
          /\ session.sessions[1].state = "open"
          /\ session.sessions[1].closes = 0
    /\ sys.state = "dropped" =>
          /\ Len(session.sessions) = 1
          /\ session.sessions[1].state = "closed"
          /\ session.sessions[1].closes = 1
    /\ sys.state = "panic" =>
          IF kern.open
          THEN /\ Len(session.sessions) = 1
               /\ session.sessions[1].state = "closed"
               /\ session.sessions[1].closes = 1
          ELSE session.sessions = << >>

\* C21 witness: a System that was dropped after refresh_memory and a
\* refresh_processes that created an entity used its session.
C21_Witness ==
    /\ sys.state = "dropped"
    /\ session.sessions[1].closes = 1
    /\ {"kvm_getprocs", "kvm_getargv", "kvm_getswapinfo"}
          \subseteq session.sessions[1].used

(***************************************************************************)
(* Claims on the kernel-worker filter (Spec).                              *)
(***************************************************************************)
\* Whether the record is flagged P_SYSTEM and is not the one of pid 1.
KernelWorker(kproc) == "P_SYSTEM" \in kproc.ki_flag /\ kproc.ki_pid # 1

\* C22: a record flagged P_SYSTEM of a pid other than 1 creates and updates
\* no entry: refresh_process leaves the table as it was for that pid, and
\* no entry is held for it after refresh_processes; every other record
\* listed, the one of pid 1 whatever its flag, has its entry after the
\* call, created or updated.
C22_KernelWorkerFilter ==
    [][ LET call == last_call'
            L == call.listing
        IN /\ (call.op = "refresh_processes" /\ Count(L) >= 1) =>
                \A p \in DOMAIN L :
                    IF KernelWorker(L[p])
                    THEN p \notin DOMAIN process_list'
                    ELSE /\ p \in DOMAIN process_list'
                         /\ process_list'[p].updated
           /\ (call.op = "refresh_process" /\ call.pid \in DOMAIN L) =>
                IF KernelWorker(L[call.pid])
                THEN /\ (call.pid \in DOMAIN process_list')
                            <=> (call.pid \in DOMAIN process_list)
                     /\ call.pid \in DOMAIN process_list =>
                            process_list'[call.pid] = process_list[call.pid]
                ELSE /\ call.pid \in DOMAIN process_list'
                     /\ process_list'[call.pid].updated
      ]_vars

\* C22 witness: a full refresh read pids 1 and 2 both flagged P_SYSTEM and
\* found both held; pid 1 is held and pid 2 is not.
C22_Witness ==
    /\ last_call.op = "refresh_processes"
    /\ last_call.held = {1, 2}
    /\ DOMAIN last_call.listing = {1, 2}
    /\ "P_SYSTEM" \in last_call.listing[1].ki_flag
    /\ "P_SYSTEM" \in last_call.listing[2].ki_flag
    /\ DOMAIN process_list = {1}

(***************************************************************************)
(* Claims on one Linux entity over the passes (SpecEntity).                *)
(***************************************************************************)
\* C23 (as claimed): when a cleanup starts, has_been_updated of a held
\* entity is true if and only if the fetch phase of this pass observed it,
\* so that the cleanup evicts the entity the pass did not list.
C23_UpdatedIffObserved ==
    (lpass.phase = "cleanup" /\ lpass.held) =>
        (has_been_updated(lproc) <=> lpass.observed)

(***************************************************************************)
(* Claims on the memory readings of one Linux entity (SpecMemory).         *)
(***************************************************************************)
\* C24 (as claimed): after update_time_and_memory the stored memory is the
\* reading less the owning process's reading, clamped to zero, and likewise
\* the stored virtual_memory; both are 0 when the reading is the smaller.
C24_MemoryClamped ==
    lmem.called =>
        /\ lproc.memory = Max(lmem.memory - lmem.parent_memory, 0)
        /\ lproc.virtual_memory =
               Max(lmem.virtual_memory - lmem.parent_virtual_memory, 0)

(***************************************************************************)
(* Claims on the nested task table of a Linux process (SpecTasks).         *)
(***************************************************************************)
\* The pids of the folders of dir whose fetch succeeds under the owner pid.
Fetched(dir, pid) ==
    { p \in UNION { PidFromStr(n) : n \in DOMAIN dir \ Failing(dir) } :
        p # pid }

\* C25: after refresh_procs ran for an owning process P (pid # 0), the keys
\* of P.tasks are exactly the listed task ids whose fetch succeeded in this
\* call, and the pid of P is not one of them.
C25_TaskTableKeys ==
    [][ lcall'.dir # None =>
          LET dir == CHOOSE d \in lcall'.dir : TRUE
          IN \A n \in DOMAIN dir \ Failing(dir) :
                LET p == CHOOSE x \in PidFromStr(n) : TRUE
                IN dir[n].task # None =>
                      /\ DOMAIN lroot'.tasks[p].tasks =
                             Fetched(CHOOSE t \in dir[n].task : TRUE, p)
                      /\ p \notin DOMAIN lroot'.tasks[p].tasks
      ]_vars

\* A call that found pid 1 holding the tasks 11 and 12, with 11 no longer
\* listed, the fetch of 12 failing and 1 itself listed: both were evicted.
C25_Witness ==
    /\ 1 \in lcall.held
    /\ lcall.dir # None
    /\ LET dir == CHOOSE d \in lcall.dir : TRUE
       IN /\ PidName(1) \in DOMAIN dir
          /\ LET td == CHOOSE t \in dir[PidName(1)].task : TRUE
             IN /\ PidName(1) \in DOMAIN td
                /\ PidName(11) \notin DOMAIN td
                /\ PidName(12) \in Failing(td)
    /\ lcall.tasks_held = {11, 12}
    /\ DOMAIN lroot.tasks[1].tasks = {}

\* The fields a task takes from its owning process.
CopiedFields == {"name", "cmd", "exe", "cwd", "root", "environ"}

\* The tasks of the process p of the table after that the table before did
\* not hold.
CreatedTasks(before, after, p) ==
    DOMAIN after.tasks[p].tasks
        \ (IF p \in DOMAIN before.tasks THEN DOMAIN before.tasks[p].tasks
           ELSE {})

\* C26: a task created under an owning process P (pid # 0) has the name,
\* cmd, exe, cwd, root and environ P has when the task is created, and P's
\* pid as its parent, also when P is created by the same call.
C26_TaskCopiesOwner ==
    [][ \A p \in DOMAIN lroot'.tasks :
          \A t \in CreatedTasks(lroot, lroot', p) :
             /\ \A f \in CopiedFields :
                   lroot'.tasks[p].tasks[t][f] = lroot'.tasks[p][f]
             /\ lroot'.tasks[p].tasks[t].parent = Some(p)
      ]_vars

\* A call that created pid 1 together with its task 11, whose own folder
\* names another program than the folder of pid 1.
C26_Witness ==
    /\ 1 \notin lcall.held
    /\ 1 \in DOMAIN lroot.tasks
    /\ 11 \in DOMAIN lroot.tasks[1].tasks
    /\ lroot.tasks[1].tasks[11].name = lroot.tasks[1].name
    /\ lroot.tasks[1].name # "worker"

(***************************************************************************)
(* Claims on the creation of a FreeBSD entity by the two refreshes         *)
(* (SpecIdent).                                                            *)
(***************************************************************************)
\* C27 (as claimed): the entity refresh_process creates for a pid the table
\* does not hold has the name, cmd, root and environ of the entity
\* refresh_processes creates from the same table and the same kernel record.
C27_SinglePidCreatesFull ==
    [][ ( /\ last_call'.op = "refresh_process"
          /\ last_call'.pid \notin DOMAIN process_list
          /\ last_call'.pid \in DOMAIN process_list' ) =>
          LET pid  == last_call'.pid
              full == refresh_procs(process_list, last_call'.listing,
                                    system_info)
          IN /\ pid \in DOMAIN full
             /\ process_list'[pid].name = full[pid].name
             /\ process_list'[pid].cmd = full[pid].cmd
             /\ process_list'[pid].root = full[pid].root
             /\ process_list'[pid].environ = full[pid].environ
      ]_vars

(***************************************************************************)
(* Claims on the first observation of an entity (SpecFirst).               *)
(***************************************************************************)
\* Whether the previous disk counters of the entity e are 0.
ZeroBaseline(e) == e.old_read_bytes = 0 /\ e.old_written_bytes = 0

\* C28: an entity a refresh creates has its previous disk counters at 0, so
\* that disk_usage() gives as deltas the whole totals of the first sample,
\* on FreeBSD and on Linux; the Linux cpu_usage of a new entity is 0 and
\* the FreeBSD one is what the first record gives.
C28_FirstDiskDelta ==
    [][ /\ \A p \in DOMAIN process_list' \ DOMAIN process_list :
              LET e  == process_list'[p]
                  kp == last_call'.listing[p]
                  du == freebsd_disk_usage(e)
              IN /\ ZeroBaseline(e)
                 /\ du.read_bytes = kp.ru_inblock
                 /\ du.written_bytes = kp.ru_oublock
                 /\ du.total_read_bytes = du.read_bytes
                 /\ du.total_written_bytes = du.written_bytes
                 /\ e.cpu_usage = Sampled(kp, system_info).cpu_usage
        /\ \A p \in DOMAIN lroot'.tasks \ DOMAIN lroot.tasks :
              LET e == lroot'.tasks[p]
              IN /\ ZeroBaseline(e)
                 /\ e.cpu_usage = 0
                 /\ \A du \in linux_disk_usage(e) :
                       /\ ~du.panic
                       /\ du.read_bytes = e.read_bytes
                       /\ du.written_bytes = e.written_bytes
                       /\ du.total_read_bytes = du.read_bytes
                       /\ du.total_written_bytes = du.written_bytes
      ]_vars

\* Both backends created pid 1 in their last call, from a first sample with
\* read and written bytes: disk_usage() gives them as deltas.
C28_Witness ==
    /\ last_call.op = "refresh_processes"
    /\ 1 \notin last_call.held
    /\ 1 \in DOMAIN process_list
    /\ freebsd_disk_usage(process_list[1]).read_bytes > 0
    /\ lcall.dir # None
    /\ 1 \notin lcall.held
    /\ 1 \in DOMAIN lroot.tasks
    /\ \A du \in linux_disk_usage(lroot.tasks[1]) :
          du.read_bytes > 0 /\ du.written_bytes > 0

(***************************************************************************)
(* Claims on fill_processor over any two samples (SpecFill).               *)
(***************************************************************************)
\* C29 (as claimed): for any two consecutive samples, a bucket having
\* decreased or not, fill_processor computes the non-idle delta and the
\* total delta without unsigned underflow (no panic, no wrapped value) and
\* sets a usage between 0 and 100.
C29_UsageInRange ==
    fill.called =>
        /\ ~fill.panic
        /\ ~fill.wrapped
        /\ fill.cpu_usage[1] >= 0
        /\ fill.cpu_usage[1] <= 100 * fill.cpu_usage[2]

(***************************************************************************)
(* Claims on the budget of open stat files (SpecFetch).                    *)
(***************************************************************************)
\* The entities of the table, and their tasks, that hold their stat file.
OpenStatFiles(table) ==
    { pt \in (DOMAIN table)
               \X UNION { {q} \cup DOMAIN table[q].tasks : q \in DOMAIN table } :
        IF pt[2] = pt[1]
        THEN table[pt[1]].stat_file # None
        ELSE /\ pt[2] \in DOMAIN table[pt[1]].tasks
             /\ table[pt[1]].tasks[pt[2]].stat_file # None }

\* C30 (as claimed): REMAINING_FILES plus the number of live entities that
\* hold their stat file is the initial budget, whatever calls succeeded or
\* failed before.
C30_BudgetConserved ==
    remaining_files + Cardinality(OpenStatFiles(lroot.tasks)) = InitialFiles

(***************************************************************************)
(* Claims on the failing fetch of a held Linux entity (SpecFetch).         *)
(***************************************************************************)
\* The fields of a Linux entity a successful fetch refreshes.
RefreshedFields(e) ==
    [ status |-> e.status, memory |-> e.memory,
      virtual_memory |-> e.virtual_memory,
      utime |-> e.utime, stime |-> e.stime,
      old_utime |-> e.old_utime, old_stime |-> e.old_stime,
      read_bytes |-> e.read_bytes, old_read_bytes |-> e.old_read_bytes,
      written_bytes |-> e.written_bytes,
      old_written_bytes |-> e.old_written_bytes,
      tasks |-> e.tasks, updated |-> e.updated ]

\* C31: a refresh in which _get_process_data gives Err for a held pid (its
\* stat file does not read, or does not parse) leaves the status, memory,
\* virtual_memory, utime, stime and their previous samples, the disk
\* counters, the tasks and the updated flag of that entity as they were.
C31_ErrLeavesHeldEntity ==
    [][ lcall'.dir # None =>
          LET dir == CHOOSE d \in lcall'.dir : TRUE
          IN \A n \in Failing(dir) :
                LET p == CHOOSE x \in PidFromStr(n) : TRUE
                IN p \in DOMAIN lroot.tasks =>
                      /\ p \in DOMAIN lroot'.tasks
                      /\ RefreshedFields(lroot'.tasks[p])
                             = RefreshedFields(lroot.tasks[p])
      ]_vars

\* A call found pid 1 held, refreshed once already, and its stat file not
\* parsing, and pid 2 held with its stat file not reading.
C31_Witness ==
    /\ lcall.held = {1, 2}
    /\ lcall.dir # None
    /\ LET dir == CHOOSE d \in lcall.dir : TRUE
       IN /\ DOMAIN dir = {PidName(1), PidName(2)}
          /\ dir[PidName(1)].stat.ok /\ ~dir[PidName(1)].stat.parsed
          /\ ~dir[PidName(2)].stat.ok
    /\ lroot.tasks[1].old_utime > 0
    /\ DOMAIN lroot.tasks[1].tasks # {}

(***************************************************************************)
(* Claims on the lookup of a pid in the FreeBSD table (SpecLookup).        *)
(***************************************************************************)
\* C32 (as claimed): process(pid) gives the entity processes() holds for
\* pid when pid is one of its keys, and nothing otherwise.
C32_PidLookup ==
    last_call.op = "process" =>
        last_call.ret =
            IF last_call.pid \in DOMAIN processes(process_list)
            THEN Some(processes(process_list)[last_call.pid])
            ELSE None

(***************************************************************************)
(* Claims on a pid given to another process between two passes (SpecIdent).*)
(***************************************************************************)
\* C33 (as claimed): after a full refresh the start_time, uid and gid of
\* every entity the kernel still lists are those of the kernel's current
\* record (FreeBSD) or folder (Linux) of its pid, also when the entity was
\* held from the pass before and the pid now belongs to another process.
C33_IdentityFollowsKernel ==
    [][ /\ last_call'.op = "refresh_processes" =>
              \A p \in DOMAIN process_list' \cap DOMAIN last_call'.listing :
                 LET e  == process_list'[p]
                     kp == last_call'.listing[p]
                 IN /\ e.start_time = kp.ki_start
                    /\ e.uid = kp.ki_ruid
                    /\ e.gid = kp.ki_rgid
        /\ lcall'.dir # None =>
              LET dir == CHOOSE d \in lcall'.dir : TRUE
              IN \A n \in DOMAIN dir \ Failing(dir) :
                    LET p    == CHOOSE x \in PidFromStr(n) : TRUE
                        e    == lroot'.tasks[p]
                        cur  == BuildProcess(p, dir[n], lroot, None, LinuxEnv)
                    IN /\ e.start_time = cur.start_time
                       /\ e.uid = cur.uid
                       /\ e.gid = cur.gid
      ]_vars

(***************************************************************************)
(* Claims on the name of a new FreeBSD entity (SpecName).                  *)
(***************************************************************************)
\* C34 (as claimed): the name of an entity a full refresh creates is the
\* file name of cmd[0] when the command line gives one, and ki_comm
\* otherwise; it is not empty when ki_comm is not, also when the command
\* line is empty.
C34_NameFallsBack ==
    [][ \A p \in DOMAIN process_list' \ DOMAIN process_list :
          LET kp == last_call'.listing[p]
              e  == process_list'[p]
          IN /\ e.name = IF kp.argv # << >> /\ file_name(kp.argv[1]) # None
                         THEN CHOOSE n \in file_name(kp.argv[1]) : TRUE
                         ELSE kp.ki_comm
             /\ kp.ki_comm # "" => e.name # ""
      ]_vars

=============================================================================
